---- MODULE Spec2Model ----
(***************************************************************************)
(* StatMon daemon: the interval scheduler (scheduler.py), the host loop    *)
(* that drives it (__main__.py) and the alert evaluation engine            *)
(* (alerting.py).                                                          *)
(*                                                                         *)
(* Time is in whole seconds.  The scheduler part of the state is driven by *)
(* Spec and LiveSpec, the start of main by BootSpec, the JobBuilder by     *)
(* BuilderSpec.  The alert engine is driven by AlertSpec (new ping         *)
(* results), GapSpec (clock, readings, gap setting), SinkSpec (environment *)
(* and sinks), FaultSpec (malformed settings), SchemaSpec (a table or a    *)
(* column missing), BurstSpec (several conditions at once) and ThreshSpec  *)
(* (one pass per rule and reading); StreakSpec and LatestSpec apply the    *)
(* failure-streak function and _latest_readings_map to given tables.       *)
(***************************************************************************)
EXTENDS Integers, Sequences, FiniteSets, TLC

(* ------------------------------ bounds --------------------------------- *)

\* most jobs registered with the scheduler
MaxJobs == 2

\* the longest job interval, in seconds
MaxInterval == 2

\* the longest a job action takes, in seconds
MaxDur == 1

\* seconds of wall clock explored after the loop starts
Horizon == 7

\* time.time() when the process starts: seconds since 1970, far above any
\* interval (a stand-in for a value near 1.7e9)
StartTime == 100

\* most stations in the stations table
MaxStations == 2

\* most rows the pinger adds to the ping_results table
MaxNewPings == 2

\* most changes of the clock, the readings, the gap setting, the
\* environment and the sinks' reachability followed between passes
MaxChanges == 3

\* how far below the lower and above the upper bound of a rule the reading
\* values tried reach, in tenths
Margin == 5

\* most rows of a ping_results table given to _consecutive_ping_failures
MaxProbeRows == 5

\* the search windows tried are 1..MaxProbeWindow, and 20
MaxProbeWindow == 3

\* most rows of a readings table given to _latest_readings_map
MaxReadRows == 3

\* datetime.now() at the first alert pass, in seconds (above the 7-day
\* look-back, so that every timestamp is positive)
AlertStart == 1000000

(* -------------------------- program constants -------------------------- *)

\* time.sleep(1) at the end of each loop iteration
SleepSecs == 1

\* HEARTBEAT_SECS
HEARTBEAT_SECS == 5

MaxTime == StartTime + Horizon

\* the intervals jobs are registered with: due at every tick, or at every
\* MaxInterval-th second
Intervals == {1, MaxInterval}

\* how long one call of a job action takes: no time, or MaxDur seconds
Durations == {0, MaxDur}

VARIABLES
    \* ---- scheduler.py / __main__.py ----
    jobs,        \* Scheduler.jobs: sequence of [interval, last_run]
    clock,       \* the wall clock, what time.time() returns
    pc,          \* where the main thread is: "boot" (before load_config),
                 \* "loaded" (after it), "setup", "check" (the while
                 \* test), "tick" (run_pending's for loop), "job" (inside
                 \* job["func"]()), "beat", "sleep", "exited", "crashed"
    now,         \* run_pending's local: the time sampled at line 45
    idx,         \* run_pending's loop position (1-based index into jobs)
    running,     \* the jobs whose action is executing
    shutdown,    \* the module global _shutdown
    last_beat,   \* main's last_beat
    \* ---- observation of the run (history, not program state) ----
    started,     \* per job: the clock when its action was last invoked, -1 if never
    firedAt,     \* per job: the tick time (`now`) of its latest invocation, -1 if never
    raised,      \* the jobs whose latest invocation ended in an exception
    dueAtTick,   \* the jobs that were due when the current tick sampled `now`
    firedInTick, \* the jobs invoked in the current tick, in invocation order
    sigAtJob,    \* the loop position idx at which the shutdown request arrived
                 \* during the current tick, 0 when none arrived during it
    \* ---- alerting.py and the store it reads ----
    stations,    \* table stations: sequence of rows, in SELECT order
    ping_results,\* table ping_results: sequence of rows, oldest first
    readings,    \* table readings: sequence of rows, in SELECT order
    utcnow,      \* datetime.now(timezone.utc), in seconds
    sent_keys,   \* AlertManager._sent_keys
    env,         \* os.environ: the names of the variables set to a non-empty value
    startEnv,    \* os.environ as it was when the process started
    down,        \* the sinks ("teams", "email") whose delivery fails at present
    schema,      \* the tables of the database: table name -> its column names
    \* ---- observation of the alert passes (history) ----
    dispatched,  \* per key: how many times a candidate with it was passed to _send_alert
    cands,       \* the candidates raised by the latest pass, in order
    passDone,    \* TRUE when the store is as the latest pass saw it
    sends,       \* the _send_alert calls of the latest pass, in order
    passError,   \* TRUE when the latest pass was ended by an exception
    ended,       \* the <<kind, station>> conditions that were alerted and
                 \* that a later pass then saw absent
    failedKeys,  \* the keys whose _send_alert call had a sink fail
    silentKeys,  \* the keys whose _send_alert call found no sink configured
    lastGap,     \* per station: the key of the gap candidate raised by the
                 \* pass that last evaluated it, Null if that pass raised none
    lastStreak,  \* per station: the failures at the head of its whole ping
                 \* history when a pass last evaluated it, -1 if none did
    changes,     \* how many changes the store and the environment have
                 \* seen since the process started
    \* ---- a function of alerting.py called on its own ----
    probe,       \* the call: [rows, window, count] for _consecutive_ping_failures
                 \* (input and result), [called, map, error] for
                 \* _latest_readings_map (its input is the readings table),
                 \* [builder, funcs, last] for a JobBuilder: the object,
                 \* the job["func"] of each registered job, the latest do()
    \* ---- main's startup (__main__.py:81-118) ----
    boot         \* [config, db_ok, exit_code]: args.config, whether the
                 \* database can be opened, and the status the process
                 \* exited with (-1 while it runs)

schedVars == <<jobs, clock, pc, now, idx, running, shutdown, last_beat>>
histVars  == <<started, firedAt, raised, dueAtTick, firedInTick, sigAtJob>>
alertVars == <<stations, ping_results, readings, utcnow, sent_keys, env, startEnv, down,
               schema,
               dispatched, cands, passDone, sends, passError, ended, failedKeys,
               silentKeys,
               lastGap, lastStreak,
               changes>>
vars == <<schedVars, histVars, alertVars, probe, boot>>

JobIds == 1..MaxJobs
Registered == 1..Len(jobs)

(* ------------------------------ helpers -------------------------------- *)

\* scheduler.py:47  the due test of run_pending
IsDue(job, t) == t - job.last_run >= job.interval

\* (mutant) add_job seeds last_run with the current time
NewJob_SeededNow(interval_seconds) ==
    [interval |-> interval_seconds, last_run |-> clock]

\* scheduler.py:36-40  the record add_job appends
NewJob(interval_seconds) == [interval |-> interval_seconds, last_run |-> 0]

\* (mutant) a new job is put at the head of the list
AppendJob_AtHead(js, job) == <<job>> \o js

\* scheduler.py:36  self.jobs.append({...})
AppendJob(js, job) == Append(js, job)

\* (mutant) the loop never looks at _shutdown
LoopCond_Always(sd) == TRUE

\* __main__.py:154  the loop condition `while not _shutdown`
LoopCond(sd) == ~sd

\* (mutant) last_run is the time at which the action ended
SetLastRun_AtFinish(js, j, t, didRaise) == [js EXCEPT ![j].last_run = clock']

\* (mutant) the end of an action stamps every job of the list
SetLastRun_All(js, j, t, didRaise) ==
    [k \in DOMAIN js |-> [js[k] EXCEPT !.last_run = t]]

\* (mutant) a job that raised is pushed out of the schedule for good
SetLastRun_SuppressFailed(js, j, t, didRaise) ==
    [js EXCEPT ![j].last_run = IF didRaise THEN t + MaxTime ELSE t]

\* (mutant) last_run is set only when the action returned
SetLastRun_OnSuccessOnly(js, j, t, didRaise) ==
    IF didRaise THEN js ELSE [js EXCEPT ![j].last_run = t]

\* scheduler.py:53-54  `finally: job["last_run"] = now`, after a return or
\* after a caught exception alike
SetLastRun(js, j, t, didRaise) == [js EXCEPT ![j].last_run = t]

\* (mutant) no except clause: the exception leaves run_pending and ends
\* the main loop
AfterRaise_Propagates(j) == [pc |-> "crashed", idx |-> j]

\* scheduler.py:51-52  `except Exception`: the exception is logged and the
\* for loop goes on with the next job
AfterRaise(j) == [pc |-> "tick", idx |-> j + 1]

\* (mutant) the action is started without waiting for it to end
AfterCall_NoWait(j) == [pc |-> "tick", idx |-> j + 1]

\* scheduler.py:50  job["func"]() is a plain call: the for loop waits in it
AfterCall(j) == [pc |-> "job", idx |-> j]

\* (mutant) the heartbeat is logged in every loop iteration
BeatDue_Always(t, last) == TRUE

\* __main__.py:157  if now - last_beat >= HEARTBEAT_SECS
BeatDue(t, last) == t - last >= HEARTBEAT_SECS

\* the schema alerting.py expects (its module docstring): the tables and
\* the columns its queries name
FullSchema ==
    [stations     |-> {"id", "name", "alert_ping_failures", "alert_gap_hours",
                       "alert_thresholds", "enabled"},
     readings     |-> {"station_id", "name", "value", "timestamp"},
     ping_results |-> {"station_id", "success", "created_at"}]

\* what is observed of the passes when none has run yet
NoPassYet ==
    /\ dispatched = <<>>
    /\ cands = <<>>
    /\ passDone = FALSE
    /\ sends = <<>>
    /\ passError = FALSE
    /\ ended = {}
    /\ failedKeys = {}
    /\ silentKeys = {}
    /\ lastGap = [i \in 1..MaxStations |-> <<>>]
    /\ lastStreak = [i \in 1..MaxStations |-> -1]
    /\ changes = 0

\* the alert engine before its first pass, over an empty store
AlertIdle ==
    /\ stations = <<>>
    /\ ping_results = <<>>
    /\ readings = <<>>
    /\ utcnow = StartTime
    /\ sent_keys = {}
    /\ env = {}
    /\ startEnv = {}
    /\ down = {}
    /\ schema = FullSchema
    /\ NoPassYet

NoProbe == [rows |-> <<>>, window |-> 0, count |-> 0]

(* ------------------------------- Init ---------------------------------- *)

\* main past its startup (the configuration loaded from ./daemon.toml's
\* database, the components built), still running
Booted == [config |-> "daemon.toml", db_ok |-> TRUE, exit_code |-> -1]

\* the scheduler and the main thread before any job is registered
SchedIdle ==
    /\ boot = Booted
    /\ jobs = <<>>
    /\ clock = StartTime
    /\ pc = "setup"
    /\ now = 0
    /\ idx = 0
    /\ running = {}
    /\ shutdown = FALSE
    /\ last_beat = 0
    /\ started = [j \in JobIds |-> -1]
    /\ firedAt = [j \in JobIds |-> -1]
    /\ raised = {}
    /\ dueAtTick = {}
    /\ firedInTick = <<>>
    /\ sigAtJob = 0

Init ==
    /\ SchedIdle
    /\ AlertIdle
    /\ probe = NoProbe

(* ------------------------------ actions -------------------------------- *)

\* Scheduler.add_job, called by main before the loop starts
AddJob(interval_seconds) ==
    /\ UNCHANGED <<alertVars, probe, boot>>
    /\ pc = "setup"
    /\ Len(jobs) < MaxJobs
    /\ jobs' = AppendJob(jobs, NewJob(interval_seconds))
    /\ UNCHANGED <<clock, pc, now, idx, running, shutdown, last_beat, histVars>>

\* main reaches "Daemon is now running." with at least one job registered
StartLoop ==
    /\ UNCHANGED <<alertVars, probe, boot>>
    /\ pc = "setup"
    /\ Len(jobs) >= 1
    /\ pc' = "check"
    /\ UNCHANGED <<jobs, clock, now, idx, running, shutdown, last_beat, histVars>>

\* `while not _shutdown:` is true: run_pending is entered and samples now
LoopEnter ==
    /\ UNCHANGED <<alertVars, probe, boot>>
    /\ pc = "check"
    /\ LoopCond(shutdown)
    /\ pc' = "tick"
    /\ now' = clock
    /\ idx' = 1
    /\ dueAtTick' = {j \in Registered : IsDue(jobs[j], clock)}
    /\ firedInTick' = <<>>
    /\ sigAtJob' = 0
    /\ UNCHANGED <<jobs, clock, running, shutdown, last_beat,
                   started, firedAt, raised>>

\* `while not _shutdown:` is false: the loop ends, main returns
LoopExit ==
    /\ UNCHANGED <<alertVars, probe, boot>>
    /\ pc = "check"
    /\ ~LoopCond(shutdown)
    /\ pc' = "exited"
    /\ UNCHANGED <<jobs, clock, now, idx, running, shutdown, last_beat, histVars>>

\* run_pending's for loop at a job that is not due: nothing happens to it
SkipJob ==
    /\ UNCHANGED <<alertVars, probe, boot>>
    /\ pc = "tick"
    /\ idx \in Registered
    /\ ~IsDue(jobs[idx], now)
    /\ idx' = idx + 1
    /\ UNCHANGED <<jobs, clock, pc, now, running, shutdown, last_beat, histVars>>

\* run_pending's for loop at a due job: job["func"]() is called
InvokeJob ==
    /\ UNCHANGED <<alertVars, probe, boot>>
    /\ pc = "tick"
    /\ idx \in Registered
    /\ IsDue(jobs[idx], now)
    /\ pc' = AfterCall(idx).pc
    /\ idx' = AfterCall(idx).idx
    /\ running' = running \cup {idx}
    /\ started' = [started EXCEPT ![idx] = clock]
    /\ firedAt' = [firedAt EXCEPT ![idx] = now]
    /\ firedInTick' = Append(firedInTick, idx)
    /\ UNCHANGED <<jobs, clock, now, shutdown, last_beat,
                   raised, dueAtTick, sigAtJob>>

\* the action of job j returns normally after d seconds; `finally` sets
\* last_run and the for loop goes on
JobReturn(j, d) ==
    /\ UNCHANGED <<alertVars, probe, boot>>
    /\ j \in running
    /\ clock + d <= MaxTime
    /\ clock' = clock + d
    /\ running' = running \ {j}
    /\ jobs' = SetLastRun(jobs, j, now, FALSE)
    /\ raised' = raised \ {j}
    /\ IF pc = "job" /\ idx = j
       THEN pc' = "tick" /\ idx' = j + 1
       ELSE UNCHANGED <<pc, idx>>
    /\ UNCHANGED <<now, shutdown, last_beat, started, firedAt,
                   dueAtTick, firedInTick, sigAtJob>>

\* the action of job j raises after d seconds; `except Exception` logs it,
\* `finally` sets last_run and the for loop goes on
JobRaise(j, d) ==
    /\ UNCHANGED <<alertVars, probe, boot>>
    /\ j \in running
    /\ clock + d <= MaxTime
    /\ clock' = clock + d
    /\ running' = running \ {j}
    /\ jobs' = SetLastRun(jobs, j, now, TRUE)
    /\ raised' = raised \cup {j}
    /\ IF pc = "job" /\ idx = j
       THEN pc' = AfterRaise(j).pc /\ idx' = AfterRaise(j).idx
       ELSE UNCHANGED <<pc, idx>>
    /\ UNCHANGED <<now, shutdown, last_beat, started, firedAt,
                   dueAtTick, firedInTick, sigAtJob>>

\* the for loop is exhausted: run_pending returns to main
TickDone ==
    /\ UNCHANGED <<alertVars, probe, boot>>
    /\ pc = "tick"
    /\ idx = Len(jobs) + 1
    /\ pc' = "beat"
    /\ UNCHANGED <<jobs, clock, now, idx, running, shutdown, last_beat, histVars>>

\* main lines 156-159: the heartbeat
Heartbeat ==
    /\ UNCHANGED <<alertVars, probe, boot>>
    /\ pc = "beat"
    /\ last_beat' = IF BeatDue(clock, last_beat) THEN clock ELSE last_beat
    /\ pc' = "sleep"
    /\ UNCHANGED <<jobs, clock, now, idx, running, shutdown, histVars>>

\* main line 160: time.sleep(1)
Sleep ==
    /\ UNCHANGED <<alertVars, probe, boot>>
    /\ pc = "sleep"
    /\ clock + SleepSecs <= MaxTime
    /\ clock' = clock + SleepSecs
    /\ pc' = "check"
    /\ UNCHANGED <<jobs, now, idx, running, shutdown, last_beat, histVars>>

\* _signal_handler: SIGINT/SIGTERM delivered to the main thread at any point
SignalHandler ==
    /\ UNCHANGED <<alertVars, probe, boot>>
    /\ pc \notin {"setup", "exited", "crashed"}
    /\ ~shutdown
    /\ shutdown' = TRUE
    /\ sigAtJob' = IF pc \in {"tick", "job"} THEN idx ELSE 0
    /\ UNCHANGED <<jobs, clock, pc, now, idx, running, last_beat,
                   started, firedAt, raised, dueAtTick, firedInTick>>

Next ==
    \/ \E i \in Intervals : AddJob(i)
    \/ StartLoop
    \/ LoopEnter
    \/ LoopExit
    \/ SkipJob
    \/ InvokeJob
    \/ \E j \in JobIds, d \in Durations : JobReturn(j, d)
    \/ \E j \in JobIds, d \in Durations : JobRaise(j, d)
    \/ TickDone
    \/ Heartbeat
    \/ Sleep
    \/ SignalHandler

Spec == Init /\ [][Next]_vars

\* The main thread is never blocked except inside a job or in sleep: every
\* step of the loop that can be taken is taken.
MainStep ==
    \/ StartLoop
    \/ LoopEnter
    \/ LoopExit
    \/ SkipJob
    \/ InvokeJob
    \/ TickDone
    \/ Heartbeat
    \/ Sleep

\* Every job action terminates, by returning or by raising.
JobEnds == \E j \in JobIds, d \in Durations : JobReturn(j, d) \/ JobRaise(j, d)

LiveSpec == Init /\ [][Next]_vars /\ WF_vars(MainStep) /\ WF_vars(JobEnds)

(* ========================== alerting.py ================================ *)

\* A nullable column: Null is SQL NULL (Python None), Some(v) a value.
Null == <<>>
Some(v) == <<v>>

\* A column that holds text that is not a number, such as 'abc' (SQLite
\* stores any type in any column).
Text == <<"abc", "text">>
IsText(raw) == Len(raw) = 2

\* timedelta(hours=1), in seconds
SecondsPerHour == 3600

\* timedelta(days=7) of _latest_readings_map, in seconds
LookBackSecs == 604800

\* the default of alert_ping_failures (alerting.py:138)
DefaultPingFailures == 3

\* the default of alert_gap_hours (alerting.py:139)
DefaultGapHours == 6

\* the least search window run passes to _consecutive_ping_failures
MinSearchWindow == 20

Max(a, b) == IF a >= b THEN a ELSE b
Min(a, b) == IF a <= b THEN a ELSE b

\* alerting.py:138-139  int(s.get(col, dflt) or dflt): None and 0 are both
\* falsy, so both become the default
OrDefault(raw, dflt) ==
    IF raw = Null THEN dflt ELSE IF raw[1] = 0 THEN dflt ELSE raw[1]

\* alerting.py:80-85  _table_exists
TableExists(table) == table \in DOMAIN schema

\* alerting.py:87-92  _columns: the column names, none for a missing table
Columns(table) == IF TableExists(table) THEN schema[table] ELSE {}

\* alerting.py:199-200, 211-213  a column that is not in the table is not
\* selected, and r.get() of it is None
Selected(value, col) == IF col \in Columns("stations") THEN value ELSE Null

\* (mutant) no row is taken as disabled
Disabled_Never(raw) == FALSE

\* alerting.py:206  r["enabled"] in (0, "0", False): the number 0 (False
\* equals 0) or the text '0'; a text value is <<text, "text">>
Disabled(raw) ==
    /\ raw # Null
    /\ IF IsText(raw) THEN raw[1] = "0" ELSE raw[1] = 0

\* alerting.py:193-215  _load_stations: nothing without an id column; rows
\* with enabled in (0, "0", False) are dropped, the others keep the
\* columns the table has
LoadStations(tbl) ==
    IF "id" \notin Columns("stations") THEN <<>>
    ELSE LET kept == SelectSeq(tbl, LAMBDA r :
                        ~Disabled(Selected(r.enabled, "enabled")))
         IN  [i \in DOMAIN kept |->
                [kept[i] EXCEPT
                   !.alert_ping_failures = Selected(@, "alert_ping_failures"),
                   !.alert_gap_hours     = Selected(@, "alert_gap_hours"),
                   !.alert_thresholds    = Selected(@, "alert_thresholds")]]

\* alerting.py:275  ok_bool = (ok in (1, True, "1"))
IsOk(success) == success = 1

\* alerting.py:266-270  SELECT success ... WHERE station_id = ? ORDER BY
\* created_at DESC LIMIT ?: the station's rows, newest first, at most
\* `limit` of them
RECURSIVE NewestFirst(_, _, _)
NewestFirst(tbl, station_id, limit) ==
    IF tbl = <<>> \/ limit <= 0 THEN <<>>
    ELSE LET last == tbl[Len(tbl)]
             rest == SubSeq(tbl, 1, Len(tbl) - 1)
         IN  IF last.station_id = station_id
             THEN <<last.success>> \o NewestFirst(rest, station_id, limit - 1)
             ELSE NewestFirst(rest, station_id, limit)

\* (mutant) the scan does not stop at a success: every failure in the
\* window is counted
RECURSIVE CountFailures_NoBreak(_)
CountFailures_NoBreak(rows) ==
    IF rows = <<>> THEN 0
    ELSE (IF IsOk(Head(rows)) THEN 0 ELSE 1) + CountFailures_NoBreak(Tail(rows))

\* alerting.py:272-279  the counting loop of _consecutive_ping_failures
RECURSIVE CountFailures(_)
CountFailures(rows) ==
    IF rows = <<>> THEN 0
    ELSE IF IsOk(Head(rows)) THEN 0
    ELSE 1 + CountFailures(Tail(rows))

\* alerting.py:266-270  the SELECT names the columns success and station_id
\* (the ORDER BY column falls back to id): on a ping_results table without
\* one of them conn.execute raises sqlite3.OperationalError
PingQueryFails ==
    TableExists("ping_results")
       /\ ~({"success", "station_id"} \subseteq Columns("ping_results"))

\* alerting.py:259-279  _consecutive_ping_failures: 0 without the table
ConsecutivePingFailures(tbl, station_id, search_window) ==
    IF ~TableExists("ping_results") THEN 0
    ELSE CountFailures(NewestFirst(tbl, station_id, search_window))

\* A timestamp in the store is [ts, aware, sep]: ts in seconds, aware
\* TRUE when the text ends in 'Z' or an offset, sep the character between
\* date and time ('T', or a blank as SQLAlchemy and Rails write it).  _parse_iso (97-106) makes
\* an aware datetime of such a text and a naive one of a text without
\* offset; comparing or subtracting a naive and an aware datetime raises
\* TypeError.
Comparable(a, b) == a.aware = b.aware

\* (mutant) a row with the same timestamp replaces the kept one
Newer_OrEqual(ts, prev_ts) == ts >= prev_ts

\* alerting.py:253  `ts > prev[1]`
Newer(ts, prev_ts) == ts > prev_ts

\* alerting.py:241-255  the loop of _latest_readings_map over the rows read:
\* a row replaces the kept one only when its timestamp is greater.  acc is
\* [map, error]; error is set when `ts > prev[1]` raises.
RECURSIVE LatestFrom(_, _)
LatestFrom(rows, acc) ==
    IF rows = <<>> \/ acc.error THEN acc
    ELSE LET r == Head(rows)
             k == <<r.station_id, r.name>>
             new == [value |-> r.value, ts |-> r.ts, aware |-> r.aware]
         IN  LatestFrom(Tail(rows),
                 IF k \notin DOMAIN acc.map
                 THEN [acc EXCEPT !.map = [x \in DOMAIN acc.map \cup {k} |->
                                              IF x = k THEN new ELSE acc.map[x]]]
                 ELSE IF ~Comparable(new, acc.map[k])
                 THEN [acc EXCEPT !.error = TRUE]
                 ELSE IF Newer(r.ts, acc.map[k].ts)
                 THEN [acc EXCEPT !.map = [@ EXCEPT ![k] = new]]
                 ELSE acc)

\* alerting.py:222-232  the readings table is there with the columns
\* station_id, name, value and a timestamp column (timestamp or created_at)
ReadingsReadable ==
    /\ TableExists("readings")
    /\ {"station_id", "name", "value"} \subseteq Columns("readings")
    /\ Columns("readings") \cap {"timestamp", "created_at"} # {}

\* (mutant) the query has no WHERE clause
InLookBack_All(r, t) == TRUE

\* alerting.py:234-239  WHERE ts >= ? with since = (now - 7 days).isoformat():
\* SQLite compares the stored text with the text of since, character by
\* character.  Both begin with the date; then since has 'T', and a stored
\* text has 'T' (r.sep = "T") or a blank (r.sep = " "), which sorts before
\* 'T'; then comes the time of day.  (All timestamps are UTC, to the
\* second.)
InLookBack(r, t) ==
    LET since == t - LookBackSecs
        day == r.ts \div (24 * SecondsPerHour)
        sinceDay == since \div (24 * SecondsPerHour)
    IN  \/ day > sinceDay
        \/ /\ day = sinceDay
           /\ r.sep = "T"
           /\ r.ts % (24 * SecondsPerHour) >= since % (24 * SecondsPerHour)

\* alerting.py:217-255  _latest_readings_map: the rows of the last 7 days;
\* the empty map when the table or one of its columns is missing
LatestReadingsMap(tbl, t) ==
    IF ~ReadingsReadable THEN [map |-> <<>>, error |-> FALSE]
    ELSE LatestFrom(SelectSeq(tbl, LAMBDA r : InLookBack(r, t)),
                    [map |-> <<>>, error |-> FALSE])

\* alerting.py:281-285  _latest_station_timestamp: None without readings,
\* else the max over the station's parameters; max raises TypeError when
\* it has to compare a naive with an aware timestamp
LatestStationTimestamp(latest_map, station_id) ==
    LET own == {latest_map[k] : k \in {x \in DOMAIN latest_map : x[1] = station_id}}
    IN  IF own = {} THEN [none |-> TRUE, error |-> FALSE]
        ELSE IF \E a, b \in own : ~Comparable(a, b)
        THEN [none |-> FALSE, error |-> TRUE]
        ELSE LET m == CHOOSE m \in own : \A u \in own : u.ts <= m.ts
             IN  [none |-> FALSE, error |-> FALSE, ts |-> m.ts, aware |-> m.aware]

\* alerting.py:145, 159, 179  the dedup keys
PingKey(sid, cons) == <<"pingfail", sid, "", cons>>
GapKey(sid, gap_hours) == <<"gap", sid, "", gap_hours>>
\* (mutant) the threshold key leaves the reading's timestamp out
ThreshKey_NoTimestamp(sid, pname, ts) == <<"thresh", sid, pname, 0>>

ThreshKey(sid, pname, ts) == <<"thresh", sid, pname, ts>>

\* (mutant) the guard is gone: every candidate is sent
IsNovel_Always(key, sent) == TRUE

\* (mutant) the key text leaves the station id out
KeyText_NoStation(key) ==
    IF key[1] = "thresh"
    THEN key[1] \o ":" \o key[3] \o ":" \o ToString(key[4])
    ELSE key[1] \o ":" \o ToString(key[4])

\* alerting.py:145, 159, 179  the f-strings: the key is the text
\* "pingfail:{sid}:{cons}", "gap:{sid}:{gap_hours}" or
\* "thresh:{sid}:{pname}:{ts}", the numbers in decimal
KeyText(key) ==
    IF key[1] = "thresh"
    THEN key[1] \o ":" \o ToString(key[2]) \o ":" \o key[3] \o ":" \o ToString(key[4])
    ELSE key[1] \o ":" \o ToString(key[2]) \o ":" \o ToString(key[4])

\* alerting.py:146, 160, 180  `if key not in self._sent_keys`: a set of
\* texts
IsNovel(key, sent) == \A k \in sent : KeyText(k) # KeyText(key)

\* (mutant) the key is not remembered after the send
Remember_Forgets(sent, key) == sent

\* alerting.py:152, 167, 187  self._sent_keys.add(key)
Remember(sent, key) == sent \cup {key}

\* alerting.py:327-337  the sinks _send_alert finds configured in the
\* environment e: Teams needs TEAMS_WEBHOOK, email SMTP_HOST and SMTP_TO
Sinks(e) ==
    (IF "TEAMS_WEBHOOK" \in e THEN {"teams"} ELSE {})
       \cup (IF {"SMTP_HOST", "SMTP_TO"} \subseteq e THEN {"email"} ELSE {})

\* (mutant) the sinks are those of the environment the process started with
SinksNow_Cached(e, e0) == Sinks(e0)

\* alerting.py:327, 335-336  _env is read inside each _send_alert call: e is
\* the environment at the call, e0 the one the process started with
SinksNow(e, e0) == Sinks(e)

\* (mutant) no try/except around a sink: its exception leaves _send_alert
SinkErrorCaught_NoExcept == FALSE

\* alerting.py:331, 351  `except Exception` around each sink
SinkErrorCaught == TRUE

\* alerting.py:328-332 (and 337-352)  one sink of a _send_alert call: it is
\* skipped when not configured (or when an exception has already left the
\* call), else it is tried and delivers unless the sink is down
TrySink(call, sink, configured, dn) ==
    IF call.raised \/ sink \notin configured THEN call
    ELSE IF sink \in dn
         THEN [call EXCEPT !.tried = @ \cup {sink}, !.raised = ~SinkErrorCaught]
         ELSE [call EXCEPT !.tried = @ \cup {sink}, !.ok = @ \cup {sink}]

\* (mutant) a call that finds no sink configured raises
SendAlert_NeedsSink(key, configured, dn) ==
    IF configured = {}
    THEN [key |-> key, tried |-> {}, ok |-> {}, raised |-> TRUE]
    ELSE TrySink(TrySink([key |-> key, tried |-> {}, ok |-> {}, raised |-> FALSE],
                         "teams", configured, dn),
                 "email", configured, dn)

\* alerting.py:312-352  _send_alert: Teams first, then email
SendAlert(key, configured, dn) ==
    TrySink(TrySink([key |-> key, tried |-> {}, ok |-> {}, raised |-> FALSE],
                    "teams", configured, dn),
            "email", configured, dn)

\* (mutant) a candidate is counted once when its condition is found and
\* once more when its key is looked up
Raise_Twice(st, kind, sid, key) ==
    LET novel == IsNovel(key, st.sent)
        call == SendAlert(key, SinksNow(env, startEnv), down)
        c == [kind |-> kind, sid |-> sid, key |-> key, sent |-> novel]
    IN  IF st.error THEN st
        ELSE IF ~novel THEN [st EXCEPT !.cands = @ \o <<c, c>>]
        ELSE [st EXCEPT !.sent  = IF call.raised THEN @ ELSE Remember(@, key),
                        !.log   = Append(@, call),
                        !.cands = @ \o <<c, c>>,
                        !.error = call.raised]

\* alerting.py:145-152 (and 159-167, 179-187): a candidate with `key` is
\* raised; when the key is new, _send_alert is called and then the key is
\* added.  st = [sent, log, cands, error, seen] is the state of the pass;
\* an exception that leaves _send_alert ends the pass before the add.
Raise(st, kind, sid, key) ==
    LET novel == IsNovel(key, st.sent)
        call == SendAlert(key, SinksNow(env, startEnv), down)
        c == [kind |-> kind, sid |-> sid, key |-> key, sent |-> novel]
    IN  IF st.error THEN st
        ELSE IF ~novel THEN [st EXCEPT !.cands = Append(@, c)]
        ELSE [st EXCEPT !.sent  = IF call.raised THEN @ ELSE Remember(@, key),
                        !.log   = Append(@, call),
                        !.cands = Append(@, c),
                        !.error = call.raised]

\* (mutant) the window is 20 whatever the threshold
SearchWindow_Fixed(ping_fail_limit) == MinSearchWindow

\* alerting.py:143  search_window=max(20, ping_fail_limit)
SearchWindow(ping_fail_limit) == Max(MinSearchWindow, ping_fail_limit)

\* alerting.py:142-152  check 1: consecutive ping failures
CheckPing(s, st, pings) ==
    LET ping_fail_limit == OrDefault(s.alert_ping_failures, DefaultPingFailures)
        cons == ConsecutivePingFailures(pings, s.id, SearchWindow(ping_fail_limit))
    IN  IF PingQueryFails THEN [st EXCEPT !.error = TRUE]
        ELSE IF ping_fail_limit > 0 /\ cons >= ping_fail_limit
        THEN Raise(st, "pingfail", s.id, PingKey(s.id, cons))
        ELSE st

\* alerting.py:158  (now - latest_ts) > gap_td
IsGap(age, gap_td) == age > gap_td

\* alerting.py:154-167  check 2: data gap across all readings
\* (t is aware: datetime.now(timezone.utc); `now - latest_ts` raises
\* TypeError when latest_ts is naive)
CheckGap(s, st, latest_map, t) ==
    LET gap_hours == OrDefault(s.alert_gap_hours, DefaultGapHours)
        latest_ts == LatestStationTimestamp(latest_map, s.id)
    IN  IF st.error THEN st
        ELSE IF latest_ts.error THEN [st EXCEPT !.error = TRUE]
        ELSE IF latest_ts.none THEN Raise(st, "gap", s.id, GapKey(s.id, gap_hours))
        ELSE IF ~latest_ts.aware THEN [st EXCEPT !.error = TRUE]
        ELSE IF IsGap(t - latest_ts.ts, gap_hours * SecondsPerHour)
        THEN Raise(st, "gap", s.id, GapKey(s.id, gap_hours))
        ELSE st

\* (mutant) a value equal to a bound is a breach already
Breach_Inclusive(val, vmin, vmax) ==
    \/ (vmin # Null /\ val <= vmin[1])
    \/ (vmax # Null /\ val >= vmax[1])

\* alerting.py:176-177  breach of one rule; an absent bound is None
Breach(val, vmin, vmax) ==
    \/ (vmin # Null /\ val < vmin[1])
    \/ (vmax # Null /\ val > vmax[1])

\* alerting.py:169-187  check 3: the threshold rules, in dict order
RECURSIVE CheckThresholds(_, _, _, _)
CheckThresholds(s, rules, st, latest_map) ==
    IF rules = <<>> \/ st.error THEN st
    ELSE LET rule == Head(rules)
             k == <<s.id, rule.pname>>
             st1 == IF k \in DOMAIN latest_map
                       /\ Breach(latest_map[k].value, rule.vmin, rule.vmax)
                    THEN Raise(st, "thresh", s.id,
                               ThreshKey(s.id, rule.pname, latest_map[k].ts))
                    ELSE st
         IN  CheckThresholds(s, Tail(rules), st1, latest_map)

\* The alert_thresholds column holds the text of a JSON object (or NULL).
\* It is modelled as the sequence of the object's entries "pname": value,
\* each [pname, shape, vmin, vmax]: shape "pair" for a 2-element list
\* [vmin, vmax], "short" and "long" for a list [vmin] or [vmin, vmax, x],
\* "scalar" for a value that is no list, and "broken" for the place where
\* the text stops being JSON (as in '{"Battery": [11.5, 14.5], "Signal": [0').
\* A bound is Null (JSON null), Some(n) or Text (a string that is no
\* number).

\* (mutant) _to_float has no try: float('abc') raises
ToFloat_NoExcept(v) == IF IsText(v) THEN [raised |-> TRUE, value |-> Null]
                       ELSE [raised |-> FALSE, value |-> v]

\* alerting.py:408-412  _to_float: the number, or None when float(v) raises
ToFloat(v) == [raised |-> FALSE, value |-> IF IsText(v) THEN Null ELSE v]

\* alerting.py:303-304  None if arr[i] is None else _to_float(arr[i])
ParseBound(v) == IF v = Null THEN [raised |-> FALSE, value |-> Null] ELSE ToFloat(v)

\* (mutant) no except clause in _parse_thresholds
ParseErrorCaught_NoExcept == FALSE

\* alerting.py:307-308  `except Exception: ... return {}`
ParseErrorCaught == TRUE

\* alerting.py:289-308  _parse_thresholds: NULL and '' give no rules; text
\* that json.loads rejects, or a bound whose conversion raised, ends in the
\* except clause; else the entries that are 2-element lists, in order,
\* with their bounds converted
ParseThresholds(raw) ==
    LET pairs == SelectSeq(raw, LAMBDA e : e.shape = "pair")
        rules == [k \in DOMAIN pairs |->
                    [pname |-> pairs[k].pname, shape |-> "pair",
                     vmin |-> ParseBound(pairs[k].vmin).value,
                     vmax |-> ParseBound(pairs[k].vmax).value]]
        failed == \/ \E k \in DOMAIN raw : raw[k].shape = "broken"
                  \/ \E k \in DOMAIN pairs : \/ ParseBound(pairs[k].vmin).raised
                                               \/ ParseBound(pairs[k].vmax).raised
    IN  IF raw = Null THEN [rules |-> <<>>, raised |-> FALSE]
        ELSE IF failed THEN [rules |-> <<>>, raised |-> ~ParseErrorCaught]
        ELSE [rules |-> rules, raised |-> FALSE]

\* alerting.py:138-139  int(...) of text that is not a number raises
\* ValueError, and nothing in run catches it
ConfigError(s) == IsText(s.alert_ping_failures) \/ IsText(s.alert_gap_hours)

\* alerting.py:135-187  the body of `for s in stations`: the three checks in
\* order; an exception ends the body (and the pass) where it is raised
EvalStation(s, st, pings, latest_map, t) ==
    LET thresholds == ParseThresholds(s.alert_thresholds)
    IN  IF ConfigError(s) \/ thresholds.raised THEN [st EXCEPT !.error = TRUE]
        ELSE LET st3 == CheckThresholds(s, thresholds.rules,
                            CheckGap(s, CheckPing(s, st, pings), latest_map, t),
                            latest_map)
             IN  IF st3.error THEN st3 ELSE [st3 EXCEPT !.seen = @ \cup {s.id}]

\* alerting.py:135  for s in stations
RECURSIVE EvalAll(_, _, _, _, _)
EvalAll(ss, st, pings, latest_map, t) ==
    IF ss = <<>> \/ st.error THEN st
    ELSE EvalAll(Tail(ss), EvalStation(Head(ss), st, pings, latest_map, t),
                 pings, latest_map, t)

\* alerting.py:120-189  AlertManager.run: one evaluation pass
RunPass(sent) ==
    LET loaded == LoadStations(stations)
        st0 == [sent |-> sent, log |-> <<>>, cands |-> <<>>,
                error |-> FALSE, seen |-> {}]
        latest == LatestReadingsMap(readings, utcnow)
    IN  IF ~TableExists("stations") THEN st0
        ELSE IF loaded = <<>> THEN st0
        ELSE IF latest.error THEN [st0 EXCEPT !.error = TRUE]
        ELSE EvalAll(loaded, st0, ping_results, latest.map, utcnow)

(* ------------------- the alert engine and its store -------------------- *)

\* the rule {"Battery": [11.5, 14.5]}, in tenths
BatteryRule ==
    <<[pname |-> "Battery", shape |-> "pair", vmin |-> Some(115), vmax |-> Some(145)]>>

\* the values of stations.alert_ping_failures tried: NULL, 0, and 2
PingLimitValues == {Null, Some(0), Some(2)}

StationIds == 1..MaxStations

\* one row of the stations table
StationRow(id, en, apf) ==
    [id |-> id, enabled |-> en, alert_ping_failures |-> apf,
     alert_gap_hours |-> Null, alert_thresholds |-> BatteryRule]

\* what a station is configured with: enabled (the column is NULL) with
\* some failure threshold, or disabled (enabled = 0)
StationProfiles == ({Null} \X PingLimitValues) \cup {<<Some(0), Null>>}

\* the stations tables: stations 1..n, each with one of the profiles
StationTables ==
    UNION {[1..n -> StationProfiles] : n \in 1..MaxStations}

\* the ping_results rows found when the process starts: two failed pings
\* of station 1
InitialPings ==
    <<[station_id |-> 1, success |-> 0], [station_id |-> 1, success |-> 0]>>

\* the readings table: one low Battery reading (11.0) of station 1, taken at the
\* time of the first pass; the other stations have no reading
InitialReadings ==
    <<[station_id |-> 1, name |-> "Battery", value |-> 110, ts |-> AlertStart,
      aware |-> TRUE, sep |-> "T"]>>

\* a ping_results table found when the process starts in a long outage of
\* station 1: one failed ping less than the least search window
LongOutage ==
    [i \in 1..(MinSearchWindow - 1) |-> [station_id |-> 1, success |-> 0]]

AlertInit ==
    /\ SchedIdle
    /\ probe = NoProbe
    /\ \E cfg \in StationTables :
          stations = [i \in DOMAIN cfg |-> StationRow(i, cfg[i][1], cfg[i][2])]
    /\ ping_results = InitialPings
    /\ readings = InitialReadings
    /\ utcnow = AlertStart
    /\ sent_keys = {}
    /\ env = {}
    /\ startEnv = {}
    /\ down = {}
    /\ schema = FullSchema
    /\ NoPassYet

\* (mutant) the keys added by a pass that is ended by an exception are
\* undone with the session's rollback
SentAfter_RolledBack(before, st) == IF st.error THEN before ELSE st.sent

\* alerting.py:152, 167, 187  _sent_keys is a set in memory, changed by
\* add() at once: what a pass has added stays when an exception ends the
\* pass (session_scope rolls back the database session only)
SentAfter(before, st) == st.sent

\* the calls of _send_alert counted per key
RECURSIVE Tally(_, _)
Tally(d, log) ==
    IF log = <<>> THEN d
    ELSE LET k == Head(log).key
         IN  Tally([x \in DOMAIN d \cup {k} |->
                       IF x = k THEN (IF k \in DOMAIN d THEN d[k] + 1 ELSE 1)
                       ELSE d[x]],
                   Tail(log))

\* the failures at the head of a station's whole ping history
WholeStreak(sid) ==
    CountFailures(NewestFirst(ping_results, sid, Len(ping_results)))

\* a change of the store or of the environment between two passes: the
\* observation of the latest pass no longer describes what a pass would see
Changed ==
    /\ changes' = changes + 1
    /\ cands' = <<>>
    /\ sends' = <<>>
    /\ passDone' = FALSE
    /\ UNCHANGED <<sent_keys, startEnv, dispatched, passError, ended,
                   failedKeys, silentKeys, lastStreak, lastGap>>

\* the conditions still alerted-and-absent after a pass with result st: a
\* ping or gap condition ends when a pass evaluates its station, from
\* whose keys one was sent, without raising it; it is no longer ended once
\* a pass raises it again
EndedAfter(st) ==
    LET raisedNow == {<<st.cands[i].kind, st.cands[i].sid>> : i \in 1..Len(st.cands)}
        alerted == {<<k[1], k[2]>> : k \in st.sent}
    IN  (ended \cup {c \in alerted : /\ c[1] \in {"pingfail", "gap"}
                                      /\ c[2] \in st.seen
                                      /\ c \notin raisedNow})
           \ raisedNow

\* pinger.py:252-258  _save_ping_result appends one row for a station
SavePingResult(sid, success) ==
    /\ changes < MaxNewPings
    /\ sid \in 1..Len(stations)
    /\ ping_results' = Append(ping_results, [station_id |-> sid, success |-> success])
    /\ Changed
    /\ UNCHANGED <<schema, stations, readings, utcnow, env, down>>
    /\ UNCHANGED <<schedVars, histVars, probe, boot>>

\* AlertManager.run: what one whole evaluation pass does to _sent_keys and
\* what is observed of it
PassEffect ==
    /\ \E st \in {RunPass(sent_keys)} :
           /\ sent_keys' = SentAfter(sent_keys, st)
           /\ dispatched' = Tally(dispatched, st.log)
           /\ cands' = st.cands
           /\ sends' = st.log
           /\ passError' = st.error
           /\ ended' = EndedAfter(st)
           /\ silentKeys' = silentKeys \cup
                 {st.log[j].key : j \in {x \in 1..Len(st.log) : st.log[x].tried = {}}}
           /\ failedKeys' = failedKeys \cup
                 {st.log[j].key : j \in {x \in 1..Len(st.log) :
                                            st.log[x].tried # st.log[x].ok}}
           /\ lastGap' = [i \in 1..MaxStations |->
                IF i \notin st.seen THEN lastGap[i]
                ELSE LET g == {j \in 1..Len(st.cands) : /\ st.cands[j].kind = "gap"
                                                          /\ st.cands[j].sid = i}
                     IN  IF g = {} THEN <<>> ELSE st.cands[CHOOSE j \in g : TRUE].key]
           /\ lastStreak' = [i \in 1..MaxStations |->
                                IF i \in st.seen THEN WholeStreak(i) ELSE lastStreak[i]]
    /\ passDone' = TRUE
    /\ UNCHANGED <<schema, stations, ping_results, readings, utcnow, env, startEnv, down, changes>>

\* AlertManager.run called on its own
AlertRun ==
    /\ PassEffect
    /\ UNCHANGED <<schedVars, histVars, probe, boot>>

AlertNext ==
    \/ \E sid \in StationIds, ok \in {0, 1} : SavePingResult(sid, ok)
    \/ AlertRun

AlertSpec == AlertInit /\ [][AlertNext]_vars

(* ---------------- the data-gap check over a changing store ------------- *)

\* the values of stations.alert_gap_hours tried for station 1: NULL (6 h),
\* 0, 1 h, and 200 h (longer than the 7-day look-back)
GapHourValues == {Null, Some(0), Some(1), Some(200)}

\* one row of the readings table, taken `age` seconds before the start
ReadingRow(sid, pname, v, age, aware) ==
    [station_id |-> sid, name |-> pname, value |-> v, ts |-> AlertStart - age,
     aware |-> aware, sep |-> "T"]

\* the readings tables found at the start; all rows are of station 1:
\* none; a Battery reading just younger than 1 h; one just younger than
\* 6 h; one whose timestamp has no offset; one 8 days old; and two
\* parameters of which the younger is just younger than 1 h
InitialGapReadings ==
    { <<>>,
      <<ReadingRow(1, "Battery", 110, SecondsPerHour - 1, TRUE)>>,
      <<ReadingRow(1, "Battery", 110, DefaultGapHours * SecondsPerHour - 1, TRUE)>>,
      <<ReadingRow(1, "Battery", 110, SecondsPerHour + 1, FALSE)>>,
      <<ReadingRow(1, "Battery", 110, LookBackSecs + 24 * SecondsPerHour, TRUE)>>,
      <<ReadingRow(1, "Battery", 120, 2 * SecondsPerHour, TRUE),
        ReadingRow(1, "Signal", 0, SecondsPerHour - 1, TRUE)>> }

GapInit ==
    /\ SchedIdle
    /\ probe = NoProbe
    /\ \E gh \in GapHourValues :
          stations = [i \in 1..MaxStations |->
                        [StationRow(i, Null, Null) EXCEPT
                           !.alert_gap_hours = IF i = 1 THEN gh ELSE Null]]
    /\ ping_results = <<>>
    /\ readings \in InitialGapReadings
    /\ utcnow = AlertStart
    /\ sent_keys = {}
    /\ env = {}
    /\ startEnv = {}
    /\ down = {}
    /\ schema = FullSchema
    /\ NoPassYet

\* time passes between two passes: a second, or an hour
Advance(secs) ==
    /\ changes < MaxChanges
    /\ utcnow' = utcnow + secs
    /\ Changed
    /\ UNCHANGED <<schema, stations, ping_results, readings, env, down>>
    /\ UNCHANGED <<schedVars, histVars, probe, boot>>

\* a new Battery reading of station sid, taken now, is stored; its
\* timestamp text carries an offset, or none (the ingest parses timestamps
\* with .replace(tzinfo=None))
AddReading(sid, aware) ==
    /\ changes < MaxChanges
    /\ readings' = Append(readings,
          [station_id |-> sid, name |-> "Battery", value |-> 110, ts |-> utcnow,
           aware |-> aware, sep |-> "T"])
    /\ Changed
    /\ UNCHANGED <<schema, stations, ping_results, utcnow, env, down>>
    /\ UNCHANGED <<schedVars, histVars, probe, boot>>

\* the operator sets stations.alert_gap_hours of station sid to hours
SetGapHours(sid, hours) ==
    /\ changes < MaxChanges
    /\ stations[sid].alert_gap_hours # hours
    /\ stations' = [stations EXCEPT ![sid].alert_gap_hours = hours]
    /\ Changed
    /\ UNCHANGED <<schema, ping_results, readings, utcnow, env, down>>
    /\ UNCHANGED <<schedVars, histVars, probe, boot>>

GapNext ==
    \/ \E secs \in {1, SecondsPerHour} : Advance(secs)
    \/ \E aware \in BOOLEAN : AddReading(1, aware)
    \/ \E hours \in {Null, Some(1)} : SetGapHours(1, hours)
    \/ AlertRun

GapSpec == GapInit /\ [][GapNext]_vars

(* ------------------- dispatch to the configured sinks ------------------ *)

\* the environment variables _send_alert decides by
EnvNames == {"TEAMS_WEBHOOK", "SMTP_HOST", "SMTP_TO"}

SinkNames == {"teams", "email"}

\* stations without readings (each pass raises their gaps), any
\* environment at the start, every sink reachable
SinkInit ==
    /\ SchedIdle
    /\ probe = NoProbe
    /\ stations = [i \in 1..MaxStations |-> StationRow(i, Null, Null)]
    /\ ping_results = <<>>
    /\ readings = <<>>
    /\ utcnow = AlertStart
    /\ sent_keys = {}
    /\ env \in SUBSET EnvNames
    /\ startEnv = env
    /\ down = {}
    /\ schema = FullSchema
    /\ NoPassYet

\* os.environ[name] is set, or removed
SetEnv(name) ==
    /\ changes < MaxChanges
    /\ env' = IF name \in env THEN env \ {name} ELSE env \cup {name}
    /\ Changed
    /\ UNCHANGED <<schema, stations, ping_results, readings, utcnow, down>>
    /\ UNCHANGED <<schedVars, histVars, probe, boot>>

\* a sink's service becomes unreachable (urlopen or smtplib raise), or
\* reachable again
SinkFlips(sink) ==
    /\ changes < MaxChanges
    /\ down' = IF sink \in down THEN down \ {sink} ELSE down \cup {sink}
    /\ Changed
    /\ UNCHANGED <<schema, stations, ping_results, readings, utcnow, env>>
    /\ UNCHANGED <<schedVars, histVars, probe, boot>>

SinkNext ==
    \/ \E name \in EnvNames : SetEnv(name)
    \/ \E sink \in SinkNames : SinkFlips(sink)
    \/ \E hours \in {Null, Some(1)} : SetGapHours(1, hours)
    \/ AlertRun

SinkSpec == SinkInit /\ [][SinkNext]_vars

(* ------------------- passes during a long outage ----------------------- *)

\* station 1 alone, with some failure threshold, 19 failed pings behind it
OutageInit ==
    /\ SchedIdle
    /\ probe = NoProbe
    /\ \E apf \in PingLimitValues : stations = <<StationRow(1, Null, apf)>>
    /\ ping_results = LongOutage
    /\ readings = InitialReadings
    /\ utcnow = AlertStart
    /\ sent_keys = {}
    /\ env = {}
    /\ startEnv = {}
    /\ down = {}
    /\ schema = FullSchema
    /\ NoPassYet

OutageSpec == OutageInit /\ [][AlertNext]_vars

\* the failure thresholds tried in a long outage: the default, 2, the
\* least search window and one more than it
OutageLimitValues ==
    {Null, Some(2), Some(MinSearchWindow), Some(MinSearchWindow + 1)}

\* two stations with some failure threshold each, station 1 with 19 failed
\* pings behind it
WindowInit ==
    /\ SchedIdle
    /\ probe = NoProbe
    /\ \E apf \in [1..MaxStations -> OutageLimitValues] :
          stations = [i \in 1..MaxStations |-> StationRow(i, Null, apf[i])]
    /\ ping_results = LongOutage
    /\ readings = InitialReadings
    /\ utcnow = AlertStart
    /\ sent_keys = {}
    /\ env = {}
    /\ startEnv = {}
    /\ down = {}
    /\ schema = FullSchema
    /\ NoPassYet

WindowSpec == WindowInit /\ [][AlertNext]_vars

(* --------------- a pass over a malformed station setting --------------- *)

\* stations without readings, each with alert_ping_failures NULL or the
\* text 'abc'; the pings of the start
FaultInit ==
    /\ SchedIdle
    /\ probe = NoProbe
    /\ \E cfg \in [1..MaxStations -> {Null, Text}] :
          stations = [i \in 1..MaxStations |-> StationRow(i, Null, cfg[i])]
    /\ ping_results = InitialPings
    /\ readings = <<>>
    /\ utcnow = AlertStart
    /\ sent_keys = {}
    /\ env = {}
    /\ startEnv = {}
    /\ down = {}
    /\ schema = FullSchema
    /\ NoPassYet

FaultSpec == FaultInit /\ [][AlertNext]_vars

(* ------------------ the threshold check, rule by rule ------------------ *)

\* the reading values tried, in tenths: from below 11.5 to above 14.5
ReadingValues == (115 - Margin)..(145 + Margin)

\* the bounds a Battery rule is given: each one unset (null in the JSON),
\* or 11.5 below and 14.5 above
RuleBounds == {Null, Some(115)} \X {Null, Some(145)}

\* one station with a Battery rule and a Signal rule, no Signal reading,
\* and at most one Battery reading, taken now
ThreshInit ==
    /\ SchedIdle
    /\ probe = NoProbe
    /\ \E b \in RuleBounds :
          stations = <<[StationRow(1, Null, Null) EXCEPT !.alert_thresholds =
                          <<[pname |-> "Battery", shape |-> "pair",
                             vmin |-> b[1], vmax |-> b[2]],
                            [pname |-> "Signal", shape |-> "pair",
                             vmin |-> Some(0), vmax |-> Null]>>]>>
    /\ ping_results = <<>>
    /\ readings \in {<<>>} \cup {<<ReadingRow(1, "Battery", v, 0, TRUE)>> : v \in ReadingValues}
    /\ utcnow = AlertStart
    /\ sent_keys = {}
    /\ env = {}
    /\ startEnv = {}
    /\ down = {}
    /\ schema = FullSchema
    /\ NoPassYet

ThreshNext == AlertRun

ThreshSpec == ThreshInit /\ [][ThreshNext]_vars

(* ------------- passes in which several conditions hold at once --------- *)

\* the rule sets a station is given: none, the Battery rule, or the
\* Battery rule and a rule Signal >= 0
RuleSets ==
    {<<>>, BatteryRule,
     BatteryRule \o <<[pname |-> "Signal", shape |-> "pair",
                        vmin |-> Some(0), vmax |-> Null]>>}

\* the readings tables found: none, or for each station a Battery reading
\* of 11.0 and a Signal reading of -1, taken now or seven hours ago
BurstReadings ==
    {<<>>} \cup
    {[i \in 1..(2 * MaxStations) |->
        ReadingRow((i + 1) \div 2, IF i % 2 = 1 THEN "Battery" ELSE "Signal",
                   IF i % 2 = 1 THEN 110 ELSE -1, age, TRUE)] :
       age \in {0, (DefaultGapHours + 1) * SecondsPerHour}}

\* stations with the default settings and some rule set each, two failed
\* pings of station 1 behind them
BurstInit ==
    /\ SchedIdle
    /\ probe = NoProbe
    /\ \E rs \in [1..MaxStations -> RuleSets] :
          stations = [i \in 1..MaxStations |->
                        [StationRow(i, Null, Null) EXCEPT !.alert_thresholds = rs[i]]]
    /\ ping_results = InitialPings
    /\ readings \in BurstReadings
    /\ utcnow = AlertStart
    /\ sent_keys = {}
    /\ env = {}
    /\ startEnv = {}
    /\ down = {}
    /\ schema = FullSchema
    /\ NoPassYet

BurstSpec == BurstInit /\ [][AlertNext]_vars

(* ---------------- passes over a database with a defect ----------------- *)

\* the schema without one table
DropTable(table) == [t \in DOMAIN FullSchema \ {table} |-> FullSchema[t]]

\* the schema without one column of one table
DropColumn(table, col) == [FullSchema EXCEPT ![table] = @ \ {col}]

\* the schemas tried: the expected one, and it with one table or one
\* column missing
Schemas ==
    {FullSchema}
       \cup {DropTable(t) : t \in DOMAIN FullSchema}
       \cup UNION {{DropColumn(t, c) : c \in FullSchema[t]} : t \in DOMAIN FullSchema}

\* two enabled stations, station 1 with some failure threshold and two
\* failed pings behind it; each station has a Battery reading taken now,
\* that of station 1 below its rule's minimum
SchemaInit ==
    /\ SchedIdle
    /\ probe = NoProbe
    /\ \E apf \in PingLimitValues :
          stations = [i \in 1..MaxStations |->
                        StationRow(i, Null, IF i = 1 THEN apf ELSE Null)]
    /\ ping_results = InitialPings
    /\ readings = [i \in 1..MaxStations |->
                     ReadingRow(i, "Battery", IF i = 1 THEN 110 ELSE 120, 0, TRUE)]
    /\ utcnow = AlertStart
    /\ sent_keys = {}
    /\ env = {}
    /\ startEnv = {}
    /\ down = {}
    /\ schema \in Schemas
    /\ NoPassYet

SchemaSpec == SchemaInit /\ [][AlertNext]_vars

(* --------------- _latest_readings_map on a given table ----------------- *)

\* the rows tried: Battery and Signal readings of station 1 with one of
\* two values, taken now or a second ago, the timestamp text with an
\* offset or without
ProbeReadings ==
    [station_id : {1}, name : {"Battery", "Signal"}, value : {110, 120},
     ts : {AlertStart - 1, AlertStart}, aware : BOOLEAN, sep : {"T"}]

\* the readings tables tried: up to MaxReadRows rows, in SELECT order
LatestInit ==
    /\ SchedIdle
    /\ stations = <<>>
    /\ ping_results = <<>>
    /\ readings \in UNION {[1..n -> ProbeReadings] : n \in 0..MaxReadRows}
    /\ utcnow = AlertStart
    /\ sent_keys = {}
    /\ env = {}
    /\ startEnv = {}
    /\ down = {}
    /\ schema = FullSchema
    /\ NoPassYet
    /\ probe = [called |-> FALSE, map |-> <<>>, error |-> FALSE]

\* _latest_readings_map(conn); error is set when the call raises
CallLatestReadingsMap ==
    /\ ~probe.called
    /\ \E res \in {LatestReadingsMap(readings, utcnow)} :
          probe' = [called |-> TRUE, map |-> res.map, error |-> res.error]
    /\ UNCHANGED <<schedVars, histVars, alertVars, boot>>

LatestNext == CallLatestReadingsMap

LatestSpec == LatestInit /\ [][LatestNext]_vars

(* ------------------------- the start of main --------------------------- *)

\* config_loader.py:234  `def load_config()`: the function has no parameter
LoadConfigParams == 0

\* __main__.py:97  `load_config(args.config)`: main passes one argument
MainLoadConfigArgs == 1

\* the values of --config tried: the default, and a path given
ConfigArgs == {"daemon.toml", "/etc/statmon.toml"}

\* a call of load_config with nargs positional arguments raises: TypeError
\* when nargs is not the number of its parameters (Python checks the
\* arguments before the body runs), else whatever opening the database
\* in session_scope raises (config_loader.py:241)
LoadConfigRaises(nargs, db_ok) == nargs # LoadConfigParams \/ ~db_ok

\* main at line 95: arguments parsed, logging set up, the signal handlers
\* installed; the database as it is found, reachable or not
BootInit ==
    /\ boot \in [config : ConfigArgs, db_ok : BOOLEAN, exit_code : {-1}]
    /\ jobs = <<>>
    /\ clock = StartTime
    /\ pc = "boot"
    /\ now = 0
    /\ idx = 0
    /\ running = {}
    /\ shutdown = FALSE
    /\ last_beat = 0
    /\ started = [j \in JobIds |-> -1]
    /\ firedAt = [j \in JobIds |-> -1]
    /\ raised = {}
    /\ dueAtTick = {}
    /\ firedInTick = <<>>
    /\ sigAtJob = 0
    /\ probe = NoProbe
    /\ \E cfg \in StationTables :
          stations = [i \in DOMAIN cfg |-> StationRow(i, cfg[i][1], cfg[i][2])]
    /\ ping_results = InitialPings
    /\ readings = InitialReadings
    /\ utcnow = AlertStart
    /\ sent_keys = {}
    /\ env = {}
    /\ startEnv = {}
    /\ down = {}
    /\ schema \in Schemas
    /\ NoPassYet

\* __main__.py:95-100  config = load_config(args.config) in its try: on an
\* exception the process exits with status 2, else main goes on
MainLoadConfig ==
    /\ pc = "boot"
    /\ IF LoadConfigRaises(MainLoadConfigArgs, boot.db_ok)
       THEN pc' = "exited" /\ boot' = [boot EXCEPT !.exit_code = 2]
       ELSE pc' = "loaded" /\ UNCHANGED boot
    /\ UNCHANGED <<jobs, clock, now, idx, running, shutdown, last_beat, histVars>>
    /\ UNCHANGED <<alertVars, probe>>

\* the start of the process up to the point it can reach; a signal may
\* arrive at any time (the handlers are installed at lines 87-92)
BootNext ==
    \/ MainLoadConfig
    \/ SignalHandler

BootSpec == BootInit /\ [][BootNext]_vars

(* ------------------ JobBuilder: every(n).<unit>.do(f) ------------------ *)

\* the functions given to do()
Funcs == {"f", "g"}

\* no JobBuilder has been made yet
NoBuilder == [made |-> FALSE, interval |-> 0, unit |-> "none"]

\* no do() has been called yet
NoDo == [n |-> 0, unit |-> "none", func |-> "", raised |-> FALSE, at |-> -1]

\* (mutant) the interval is taken as seconds whatever the unit
IntervalSeconds_NoScale(interval, unit) == interval

\* scheduler.py:75-78  the seconds do() computes for a unit that is set
IntervalSeconds(interval, unit) ==
    IF unit = "seconds" THEN interval ELSE interval * 60

BuilderInit ==
    /\ SchedIdle
    /\ AlertIdle
    /\ probe = [builder |-> NoBuilder, funcs |-> <<>>, last |-> NoDo]

\* scheduler.py:30-32, 59-62  Scheduler.every(interval): a new JobBuilder
\* with no unit
Every(interval) ==
    /\ pc = "setup"
    /\ probe' = [probe EXCEPT !.builder =
                    [made |-> TRUE, interval |-> interval, unit |-> "none"]]
    /\ UNCHANGED <<schedVars, histVars, alertVars, boot>>

\* scheduler.py:64-72  the properties seconds and minutes set the unit
SetUnit(unit) ==
    /\ pc = "setup"
    /\ probe.builder.made
    /\ probe' = [probe EXCEPT !.builder.unit = unit]
    /\ UNCHANGED <<schedVars, histVars, alertVars, boot>>

\* scheduler.py:74-81  JobBuilder.do(func): ValueError without a unit, else
\* add_job(func, seconds) appends the job
Do(func) ==
    /\ pc = "setup"
    /\ probe.builder.made
    /\ LET b == probe.builder
           call == [n |-> b.interval, unit |-> b.unit, func |-> func,
                    raised |-> b.unit \notin {"seconds", "minutes"},
                    at |-> Len(jobs)]
       IN  IF call.raised
           THEN /\ probe' = [probe EXCEPT !.last = call]
                /\ UNCHANGED jobs
           ELSE /\ Len(jobs) < MaxJobs
                /\ jobs' = AppendJob(jobs, NewJob(IntervalSeconds(b.interval, b.unit)))
                /\ probe' = [probe EXCEPT !.last = call,
                                          !.funcs = Append(@, func)]
    /\ UNCHANGED <<clock, pc, now, idx, running, shutdown, last_beat, histVars>>
    /\ UNCHANGED <<alertVars, boot>>

BuilderNext ==
    \/ \E i \in Intervals : Every(i)
    \/ \E u \in {"seconds", "minutes"} : SetUnit(u)
    \/ \E f \in Funcs : Do(f)

BuilderSpec == BuilderInit /\ [][BuilderNext]_vars

(* ------------- _consecutive_ping_failures on a given table ------------- *)

\* the ping_results tables tried: up to MaxProbeRows rows of stations 1 and 2
ProbeTables ==
    UNION {[1..n -> [station_id : {1, 2}, success : {0, 1}]] : n \in 0..MaxProbeRows}

\* the search windows tried: small ones, and the one run uses
ProbeWindows == (1..MaxProbeWindow) \cup {MinSearchWindow}

\* a call about to be made: its table and window drawn, no count yet (-1)
StreakInit ==
    /\ SchedIdle
    /\ AlertIdle
    /\ probe \in [rows : ProbeTables, window : ProbeWindows, count : {-1}]

\* _consecutive_ping_failures(conn, 1, search_window=probe.window)
CallConsecutivePingFailures ==
    /\ probe.count = -1
    /\ probe' = [probe EXCEPT
                   !.count = ConsecutivePingFailures(probe.rows, 1, probe.window)]
    /\ UNCHANGED <<schedVars, histVars, alertVars, boot>>

StreakNext == CallConsecutivePingFailures

StreakSpec == StreakInit /\ [][StreakNext]_vars

(* ======================= scheduler: properties ========================= *)

Range(s) == {s[i] : i \in 1..Len(s)}

\* C2 (as claimed): whenever run_pending invokes a job that was invoked
\* before, at least the job's interval has passed on the wall clock since
\* the moment of that earlier invocation.
C2_IntervalBetweenInvocations ==
    [][(pc = "tick" /\ pc' = "job" /\ started[idx] # -1)
          => clock - started[idx] >= jobs[idx].interval]_vars

\* C3: an exception raised by a job never leaves run_pending (the loop never
\* crashes), the job that raised has last_run equal to the time of the tick
\* that invoked it, and the jobs after it in the list that were due in the
\* same tick are invoked all the same: when run_pending returns, the jobs
\* invoked are exactly the jobs that were due.
C3_RaiseIsolated ==
    /\ pc # "crashed"
    /\ \A j \in raised \ running : jobs[j].last_run = firedAt[j]
    /\ pc \in {"tick", "job"} =>
          \A j \in dueAtTick : j < idx => j \in Range(firedInTick)
    /\ pc = "beat" => Range(firedInTick) = dueAtTick

C3_Witness ==
    /\ pc = "beat"
    /\ \E i, j \in Registered :
          /\ i < j
          /\ i \in raised
          /\ firedAt[i] = now
          /\ j \in Range(firedInTick)

C5_NewJobDueImmediately ==
    /\ (now # 0 /\ pc \in {"beat", "sleep", "check", "exited"}) =>
          \A j \in Registered : started[j] # -1
    /\ (pc \in {"tick", "job"}) =>
          \A j \in Registered : j < idx => started[j] # -1

C5_Witness ==
    /\ pc = "beat"
    /\ now = StartTime
    /\ Len(jobs) = MaxJobs
    /\ \E j \in Registered : jobs[j].interval = MaxInterval
    /\ Range(firedInTick) = Registered

\* C6: at most one job action executes at any moment, and only while the
\* for loop of run_pending waits in that call; between ticks nothing runs;
\* the jobs of one tick are invoked in registration order.
C6_OneJobAtATime ==
    /\ Cardinality(running) <= 1
    /\ running # {} => (pc = "job" /\ running = {idx})
    /\ pc \in {"setup", "check", "beat", "sleep", "exited"} => running = {}
    /\ \A a, b \in 1..Len(firedInTick) :
          a < b => firedInTick[a] < firedInTick[b]

C6_Witness ==
    /\ pc = "job"
    /\ Len(firedInTick) >= 2
    /\ running = {firedInTick[Len(firedInTick)]}

\* C27: no step changes the interval of a registered job or its place in
\* the list; a step changes last_run only of a job that run_pending invoked
\* in the current tick; and while the for loop stands at a job that is not
\* due, no step invokes it or changes any job.
C27_OnlyInvokedJobsStamped ==
    [][/\ \A j \in Registered :
             /\ j \in 1..Len(jobs')
             /\ jobs'[j].interval = jobs[j].interval
             /\ jobs'[j].last_run # jobs[j].last_run =>
                   (pc \in {"tick", "job"} /\ j \in Range(firedInTick))
       /\ (pc = "tick" /\ idx \in Registered /\ ~IsDue(jobs[idx], now)) =>
             /\ jobs' = jobs
             /\ firedInTick' = firedInTick
             /\ running' = running]_vars

\* a tick has ended in which the first job was invoked a second time and
\* the second job, not yet due again, was passed over and kept the
\* last_run of the first tick
C27_Witness ==
    /\ pc = "beat"
    /\ Len(jobs) = 2
    /\ firedInTick = <<1>>
    /\ jobs[1].last_run = now
    /\ jobs[2].last_run = StartTime
    /\ now > StartTime

\* what holds of last_run in every state: the jobs invoked in the current
\* tick whose action has ended all have the time the tick sampled at its
\* start, and no job has a later one
StampedAtTickStart ==
    /\ \A j \in Range(firedInTick) \ running : jobs[j].last_run = now
    /\ \A j \in Registered : jobs[j].last_run <= now

\* C28: every job invoked in a tick gets as last_run the time sampled at
\* the start of that tick, whenever its action started or ended, so all
\* jobs of one tick get the same; no job's last_run is later than the start
\* of the most recent tick, and no step decreases it.
C28_LastRunIsTickStart ==
    [][/\ StampedAtTickStart'
       /\ \A j \in Registered : jobs'[j].last_run >= jobs[j].last_run]_vars

\* two jobs were invoked in one tick, the second one a second after the
\* tick's start because the first took that long, and both have the
\* tick's start as last_run though the clock has moved on
C28_Witness ==
    /\ pc = "beat"
    /\ firedInTick = <<1, 2>>
    /\ started[2] > now
    /\ clock > now
    /\ jobs[1].last_run = now
    /\ jobs[2].last_run = now

\* the jobs of the current tick were invoked in the order of the list, and
\* once the tick has ended every two jobs that were due in it were both
\* invoked, the one registered first before the other
InvokedInListOrder ==
    /\ \A p, q \in 1..Len(firedInTick) : p < q => firedInTick[p] < firedInTick[q]
    /\ pc = "beat" =>
          \A a, b \in dueAtTick :
             a < b => \E p, q \in 1..Len(firedInTick) :
                         p < q /\ firedInTick[p] = a /\ firedInTick[q] = b

\* C29: a step leaves the job list as it is or appends one job to it, so a
\* job keeps its place for the whole run; and in every tick the jobs that
\* are due are invoked in the order in which they were registered.
C29_RegistryGrowsOrderKept ==
    [][/\ Len(jobs') \in {Len(jobs), Len(jobs) + 1}
       /\ \A j \in Registered : jobs'[j].interval = jobs[j].interval
       /\ InvokedInListOrder']_vars

\* a tick after the first has ended in which two jobs with different
\* intervals were both due: the one registered first was invoked first
C29_Witness ==
    /\ pc = "beat"
    /\ now > StartTime
    /\ Len(jobs) = 2
    /\ jobs[1].interval # jobs[2].interval
    /\ dueAtTick = {1, 2}
    /\ firedInTick = <<1, 2>>

(* ------------------- scheduler: progress (LiveSpec) -------------------- *)

\* The clock of the model stops at MaxTime.  A progress property is stated
\* for the states from which the awaited step fits below MaxTime.
RoomFor(secs) == clock + secs <= MaxTime

\* C7: the loop never crashes and leaves only on a shutdown request; and as
\* long as no shutdown is requested, every registered job that is not
\* running is invoked (again) later, whichever of its invocations and of the
\* other jobs' invocations raise.
C7_JobsRunForever ==
    /\ [](pc # "crashed")
    /\ [](pc = "exited" => shutdown)
    /\ \A j \in JobIds :
          []((/\ pc # "setup"
              /\ j \in Registered
              /\ j \notin running
              /\ ~shutdown
              /\ RoomFor(jobs[j].interval + Len(jobs) * MaxDur))
                => <>(shutdown \/ j \in running))

C7_Witness ==
    /\ ~shutdown
    /\ Len(jobs) = MaxJobs
    /\ raised = Registered
    /\ pc = "job"
    /\ now > StartTime
    /\ \A j \in Registered : jobs[j].last_run > 0

\* C8: the signal handler only sets the flag: it changes neither the
\* position of the loop nor the running job; a tick in progress goes on to
\* its end with every due job invoked; once the flag is seen at the loop
\* test no tick is started; and the loop ends after a shutdown request.
C8_CooperativeShutdown ==
    /\ [][(~shutdown /\ shutdown') => UNCHANGED <<pc, idx, running, jobs>>]_vars
    /\ [][(shutdown /\ pc \in {"tick", "job"}) => pc' \in {"tick", "job", "beat"}]_vars
    /\ [][(shutdown /\ pc = "check") => pc' \in {"check", "exited"}]_vars
    /\ [](pc = "exited" => (running = {} /\ Range(firedInTick) = dueAtTick))
    /\ []((shutdown /\ pc # "setup" /\ RoomFor(Len(jobs) * MaxDur + SleepSecs))
             => <>(pc = "exited"))

C8_Witness ==
    /\ pc = "exited"
    /\ sigAtJob >= 1
    /\ \E j \in Range(firedInTick) : j > sigAtJob

(* ======================= alerting: properties ========================== *)

\* C1: a key is passed to _send_alert at most once over all passes, and a
\* key that was passed is in _sent_keys: a pass that raises a candidate
\* whose key was dispatched before (the same failure streak seen again)
\* does not dispatch it again.
C1_DispatchedAtMostOnce ==
    /\ \A k \in DOMAIN dispatched : dispatched[k] = 1 /\ k \in sent_keys
    /\ \A i \in 1..Len(cands) :
          /\ cands[i].key \in DOMAIN dispatched
          /\ dispatched[cands[i].key] = 1

C1_Witness ==
    /\ passDone
    /\ \E i \in 1..Len(cands) :
          /\ cands[i].kind = "pingfail"
          /\ ~cands[i].sent
          /\ dispatched[cands[i].key] = 1

\* the failure threshold a station row is configured with: the column, or
\* the default 3 when the column is NULL
ConfiguredThreshold(s) ==
    IF s.alert_ping_failures = Null THEN DefaultPingFailures
    ELSE s.alert_ping_failures[1]

\* the stations a pass evaluates: those not disabled
Evaluated == {i \in 1..Len(stations) :
                 ~(stations[i].enabled # Null /\ stations[i].enabled[1] = 0)}

PingCandidate(sid) ==
    \E i \in 1..Len(cands) : cands[i].kind = "pingfail" /\ cands[i].sid = sid

\* C9 (as claimed): a pass raises a failure-streak candidate for a station
\* with configured threshold t and consecutive-failure count c if and only
\* if t > 0 and c >= t; a station configured with t = 0 raises none.
C9_CandidateIffThreshold ==
    passDone =>
       \A i \in Evaluated :
          LET t == ConfiguredThreshold(stations[i])
              c == ConsecutivePingFailures(ping_results, stations[i].id,
                                           Max(MinSearchWindow, t))
          IN  PingCandidate(stations[i].id) <=> (t > 0 /\ c >= t)

\* the probe results of station 1 in a table, most recent first
HistoryOf(tbl) ==
    LET own == {i \in 1..Len(tbl) : tbl[i].station_id = 1}
    IN  [k \in 1..Cardinality(own) |->
            tbl[CHOOSE i \in own : Cardinality({j \in own : j >= i}) = k].success]

\* n is the length of the run of failures at the head of h, cut at w
IsStreak(h, w, n) ==
    /\ n \in 0..Min(w, Len(h))
    /\ \A i \in 1..n : h[i] = 0
    /\ n = Min(w, Len(h)) \/ h[n + 1] = 1

\* whether check 1 raises a candidate for station 1 with threshold t over tbl
RaisesWith(t, tbl) ==
    CheckPing(StationRow(1, Null, Some(t)),
              [sent |-> {}, log |-> <<>>, cands |-> <<>>,
               error |-> FALSE, seen |-> {}], tbl).cands # <<>>

\* C10: the count returned is the length of the run of failed probes that
\* starts at the station's most recent probe and ends before its first
\* success or at the end of the search window; and with the window run
\* uses, a threshold t >= 1 raises a candidate exactly when that run has at
\* least t failures.
C10_StreakIsLeadingFailures ==
    probe.count # -1 /\ probe.window > 0 =>
       /\ IsStreak(HistoryOf(probe.rows), probe.window, probe.count)
       /\ probe.window = MinSearchWindow =>
             \A t \in 1..(MaxProbeRows + 1) :
                RaisesWith(t, probe.rows) <=> probe.count >= t

\* history [fail, fail, fail, success, fail], most recent first: the count
\* is 3, threshold 3 raises and threshold 5 does not
C10_Witness ==
    /\ probe.count # -1
    /\ probe.window = MinSearchWindow
    /\ HistoryOf(probe.rows) = <<0, 0, 0, 1, 0>>
    /\ probe.count = 3
    /\ RaisesWith(3, probe.rows)
    /\ ~RaisesWith(5, probe.rows)

\* C11 (as claimed): whenever a pass sees that the streak of a station
\* with threshold t > 0, at or past t when a pass last saw it, has grown by
\* one more failure, that pass dispatches a failure-streak alert for the
\* station under a key not dispatched before; this for every length.
C11_EveryLongerStreakAlerted ==
    [][\A i \in Evaluated :
          LET sid == stations[i].id
              t == ConfiguredThreshold(stations[i])
          IN  (t > 0 /\ lastStreak[sid] >= t /\ lastStreak'[sid] = lastStreak[sid] + 1)
                 => \E j \in 1..Len(sends') :
                       /\ sends'[j].key[1] = "pingfail"
                       /\ sends'[j].key[2] = sid
                       /\ sends'[j].key \notin DOMAIN dispatched]_vars

\* C12 (as claimed): a ping or gap condition that was alerted, then seen
\* absent by a pass, and is raised again by a later pass is a new instance:
\* the pass that raises it dispatches an alert for it.
C12_NewInstanceAlertedAgain ==
    [][passDone' =>
         \A i \in 1..Len(cands') :
            <<cands'[i].kind, cands'[i].sid>> \in ended => cands'[i].sent]_vars

\* the gap candidate for station sid among candidates cs, if any
GapCands(cs, sid) ==
    {cs[i] : i \in {j \in 1..Len(cs) : cs[j].kind = "gap" /\ cs[j].sid = sid}}

\* all the readings a station has ever had
ReadingsOf(sid) == {readings[i] : i \in {j \in 1..Len(readings) : readings[j].station_id = sid}}

\* the gap threshold a station row is configured with, in seconds: the
\* column in hours, or the default 6 h when the column is NULL or 0
ConfiguredGapSecs(s) ==
    (IF s.alert_gap_hours = Null THEN DefaultGapHours
     ELSE IF s.alert_gap_hours[1] = 0 THEN DefaultGapHours
     ELSE s.alert_gap_hours[1]) * SecondsPerHour

\* C13 (as claimed): after a pass, every evaluated station has a gap
\* candidate if and only if it has no reading at all or its most recent
\* reading, over all its parameters, is older than its gap threshold by
\* more than nothing: exactly at the threshold is no gap.
C13_GapIffNoReadingOrTooOld ==
    passDone =>
       \A i \in Evaluated :
          LET sid == stations[i].id
              own == ReadingsOf(sid)
          IN  (GapCands(cands, sid) # {})
                 <=> \/ own = {}
                     \/ \A r \in own : utcnow - r.ts > ConfiguredGapSecs(stations[i])

\* C14 (as claimed): for a station that never had a reading (its gap
\* persists over all passes), a key is dispatched once however many passes
\* see it, and a pass that raises the gap under another threshold than the
\* pass before it dispatches one more gap alert.
C14_GapAlertedOncePerThresholdChange ==
    [][passDone' =>
         \A i \in Evaluated :
            LET sid == stations[i].id
            IN  ReadingsOf(sid) = {} =>
                   \A d \in GapCands(cands', sid) :
                      /\ dispatched'[d.key] = 1
                      /\ (lastGap[sid] # <<>> /\ lastGap[sid] # d.key) => d.sent]_vars

\* the threshold candidates of a station and parameter among those of
\* the latest pass
ThreshCands(sid, pname) ==
    {cands[i] : i \in {j \in 1..Len(cands) : /\ cands[j].kind = "thresh"
                                              /\ cands[j].sid = sid
                                              /\ cands[j].key[3] = pname}}

\* C15: after a pass, a rule (min, max) of a station has a candidate if and
\* only if its parameter has a reading v with (min set and v < min) or
\* (max set and v > max): no candidate from an unset bound, from v equal
\* to a bound, or for a parameter without a reading.
C15_BreachIffOutsideSetBounds ==
    passDone =>
       \A i \in 1..Len(stations) :
          \A k \in 1..Len(stations[i].alert_thresholds) :
             LET rule == stations[i].alert_thresholds[k]
                 vals == {r.value : r \in {x \in ReadingsOf(stations[i].id) :
                                             x.name = rule.pname}}
             IN  (ThreshCands(stations[i].id, rule.pname) # {})
                    <=> \E v \in vals :
                           \/ rule.vmin # Null /\ v < rule.vmin[1]
                           \/ rule.vmax # Null /\ v > rule.vmax[1]

\* rule (unset, 14.5) and reading 15.0: a breach; nothing for Signal
C15_Witness ==
    /\ passDone
    /\ stations[1].alert_thresholds[1].vmin = Null
    /\ stations[1].alert_thresholds[1].vmax = Some(145)
    /\ \E r \in ReadingsOf(1) : r.value = 150
    /\ ThreshCands(1, "Battery") # {}
    /\ ThreshCands(1, "Signal") = {}

\* the newest readings of a station's parameter among those of the last 7
\* days
NewestOf(sid, pname) ==
    LET own == {r \in ReadingsOf(sid) : r.name = pname /\ r.ts >= utcnow - LookBackSecs}
    IN  {r \in own : \A o \in own : o.ts <= r.ts}

\* C16: after every pass that ran to its end, each out-of-range newest
\* Battery reading seen has exactly one alert under its own (station,
\* parameter, timestamp): seen again it brings no second alert, and a
\* newer reading brings a new alert though the value is the same.
C16_OneAlertPerReadingTimestamp ==
    passDone /\ ~passError =>
       \A i \in Evaluated :
          \A r \in NewestOf(stations[i].id, "Battery") :
             r.value < 115 =>
                LET key == <<"thresh", stations[i].id, "Battery", r.ts>>
                IN  key \in DOMAIN dispatched /\ dispatched[key] = 1

\* two readings of 11.0 at different times have one alert each, and the
\* latest pass saw the newer one again without sending
C16_Witness ==
    /\ passDone
    /\ \E c \in ThreshCands(1, "Battery") : ~c.sent
    /\ \E a, b \in ReadingsOf(1) :
          /\ a.value = b.value /\ a.ts < b.ts
          /\ <<"thresh", 1, "Battery", a.ts>> \in DOMAIN dispatched
          /\ <<"thresh", 1, "Battery", b.ts>> \in DOMAIN dispatched

\* C17: in every _send_alert call made while both sinks are configured,
\* both sinks are tried, and each delivers exactly when its own service is
\* reachable: a failing webhook does not keep the email from being tried,
\* a failing email takes nothing from the webhook delivery.
C17_SinksIsolated ==
    passDone /\ Sinks(env) = SinkNames =>
       \A j \in 1..Len(sends) :
          /\ sends[j].tried = SinkNames
          /\ sends[j].ok = SinkNames \ down

\* the webhook failed and the email of the same call was delivered
C17_Witness ==
    /\ passDone
    /\ \E j \in 1..Len(sends) :
          /\ "teams" \in sends[j].tried \ sends[j].ok
          /\ "email" \in sends[j].ok

\* C18: no pass is ended by a sink failure; a key whose dispatch had a
\* sink fail is in _sent_keys like any other, and was handed to
\* _send_alert once only; and every pass goes on to every station.
C18_FailedDispatchStillRecorded ==
    /\ ~passError
    /\ \A k \in failedKeys : k \in sent_keys /\ dispatched[k] = 1
    /\ passDone => \A i \in Evaluated : GapCands(cands, stations[i].id) # {}

\* a later pass raises, and does not send again, the keys of both stations,
\* one of which had its only dispatch fail
C18_Witness ==
    /\ passDone
    /\ sends = <<>>
    /\ Len(cands) >= 2
    /\ \A i \in 1..Len(cands) : ~cands[i].sent
    /\ \E i \in 1..Len(cands) : cands[i].key \in failedKeys

\* C19: every _send_alert call of a pass tries exactly the sinks the
\* environment configures at that time, whatever it configured before.
C19_SinksReadAtCallTime ==
    passDone => \A j \in 1..Len(sends) : sends[j].tried = Sinks(env)

\* a dispatch made after the environment changed the configured sinks,
\* following an earlier dispatch
C19_Witness ==
    /\ passDone
    /\ Sinks(env) # Sinks(startEnv)
    /\ sends # <<>>
    /\ \E k \in DOMAIN dispatched : \A j \in 1..Len(sends) : sends[j].key # k

\* C20 (as claimed): a station setting that cannot be evaluated costs that
\* station only: after a pass every station whose own settings are well
\* formed has been evaluated, so that, having no reading, it has its gap
\* candidate and the alert for it has been dispatched.
C20_ErrorSkipsOnlyThatStation ==
    passDone =>
       \A i \in Evaluated :
          ~ConfigError(stations[i]) =>
             /\ GapCands(cands, stations[i].id) # {}
             /\ <<"gap", stations[i].id, "", DefaultGapHours>> \in DOMAIN dispatched

(* ================= alert engine: defects of the store ================== *)

\* the kinds of alert whose check cannot read what it needs from the
\* database as it is: all three without the stations table or its id
\* column, gap and threshold without readable readings, ping failure
\* without readable ping results
AffectedKinds ==
    (IF ~TableExists("stations") \/ "id" \notin Columns("stations")
     THEN {"pingfail", "gap", "thresh"} ELSE {})
       \cup (IF ~ReadingsReadable THEN {"gap", "thresh"} ELSE {})
       \cup (IF ~TableExists("ping_results") \/ PingQueryFails
            THEN {"pingfail"} ELSE {})

\* C21: when a table or a required column is missing, no alert of a kind
\* whose check depends on it is raised by a pass, and no key of such a kind
\* is ever in _sent_keys: the pass is abandoned or the check is skipped.
C21_NoAlertFromMissingSchema ==
    /\ \A i \in DOMAIN cands : cands[i].kind \notin AffectedKinds
    /\ \A k \in sent_keys : k[1] \notin AffectedKinds

(* ================ _latest_readings_map: what it keeps ================== *)

\* the rows of the readings table for station sid and parameter pname, in
\* the order they are read
RowsOf(sid, pname) ==
    SelectSeq(readings, LAMBDA r : r.station_id = sid /\ r.name = pname)

\* the positions in rows of the rows with the greatest timestamp
Greatest(rows) ==
    {i \in DOMAIN rows : \A j \in DOMAIN rows : rows[j].ts <= rows[i].ts}

\* the (station, parameter) pairs that occur in the readings table
KeysRead == {<<readings[i].station_id, readings[i].name>> : i \in DOMAIN readings}

\* the map returned holds, for the pair k, the row at position i of its rows
Keeps(k, rows, i) ==
    /\ k \in DOMAIN probe.map
    /\ probe.map[k].ts = rows[i].ts
    /\ probe.map[k].value = rows[i].value
    /\ probe.map[k].aware = rows[i].aware

\* least and greatest element of a non-empty set of positions
First(S) == CHOOSE i \in S : \A j \in S : i <= j
Last(S) == CHOOSE i \in S : \A j \in S : j <= i

\* the call returned a map
Returned == probe.called /\ ~probe.error

\* C22 (as stated): the map returned holds, for every (station, parameter)
\* read, the row with the greatest timestamp, and of several such rows
\* the one read last.
C22_KeepsGreatestLastOnTies ==
    Returned =>
        /\ DOMAIN probe.map = KeysRead
        /\ \A k \in KeysRead :
               Keeps(k, RowsOf(k[1], k[2]), Last(Greatest(RowsOf(k[1], k[2]))))

\* C22 (amended): the map returned holds, for every (station, parameter)
\* read, the row with the greatest timestamp, and of several such rows
\* the one read first.
C22_KeepsGreatestFirstOnTies ==
    Returned =>
        /\ DOMAIN probe.map = KeysRead
        /\ \A k \in KeysRead :
               Keeps(k, RowsOf(k[1], k[2]), First(Greatest(RowsOf(k[1], k[2]))))

\* a map was returned for a table in which two Battery rows with different
\* values share the greatest timestamp, after an older row
C22_Witness ==
    /\ Returned
    /\ \E i, j \in Greatest(RowsOf(1, "Battery")) :
          /\ i < j
          /\ RowsOf(1, "Battery")[i].value # RowsOf(1, "Battery")[j].value
    /\ Len(RowsOf(1, "Battery")) > Cardinality(Greatest(RowsOf(1, "Battery")))

(* ================ alert engine: candidates per station ================= *)

\* how many candidates of a kind the latest pass raised for a station
CandCount(kind, sid) ==
    Cardinality({j \in 1..Len(cands) : cands[j].kind = kind /\ cands[j].sid = sid})

\* how many threshold candidates the latest pass raised for a station's
\* parameter
ThreshCount(sid, pname) ==
    Cardinality({j \in 1..Len(cands) : /\ cands[j].kind = "thresh"
                                         /\ cands[j].sid = sid
                                         /\ cands[j].key[3] = pname})

\* C23 (as stated): a pass raises at most one candidate of each kind for a
\* station, hence at most three for it.
C23_AtMostOnePerEvaluator ==
    \A i \in 1..Len(stations) :
       /\ \A kind \in {"pingfail", "gap", "thresh"} : CandCount(kind, stations[i].id) <= 1
       /\ Cardinality({j \in 1..Len(cands) : cands[j].sid = stations[i].id}) <= 3

\* C23 (amended): a pass raises for a station at most one ping-failure
\* candidate, at most one gap candidate, and at most one threshold
\* candidate for each of its rules, hence at most two plus the number of
\* its rules.
C23_AtMostOnePerEvaluatorAndRule ==
    \A i \in 1..Len(stations) :
       /\ CandCount("pingfail", stations[i].id) <= 1
       /\ CandCount("gap", stations[i].id) <= 1
       /\ \A k \in 1..Len(stations[i].alert_thresholds) :
             ThreshCount(stations[i].id, stations[i].alert_thresholds[k].pname) <= 1
       /\ Cardinality({j \in 1..Len(cands) : cands[j].sid = stations[i].id})
             <= 2 + Len(stations[i].alert_thresholds)

\* a pass raised four candidates for station 1: its third failed ping, its
\* gap, and a breach of each of its two rules
C23_Witness ==
    /\ passDone
    /\ CandCount("pingfail", 1) = 1
    /\ CandCount("gap", 1) = 1
    /\ ThreshCount(1, "Battery") = 1
    /\ ThreshCount(1, "Signal") = 1

(* ============== alert engine: defaults of station settings ============= *)

\* an optional column of a station row as the store holds it: Null when
\* the table has no such column or the row has NULL in it
Stored(s, col) ==
    IF col \notin Columns("stations") THEN Null
    ELSE IF col = "alert_ping_failures" THEN s.alert_ping_failures
    ELSE IF col = "alert_gap_hours" THEN s.alert_gap_hours
    ELSE s.alert_thresholds

\* the value a setting should be evaluated with: the default when it is
\* absent or NULL, else exactly the stored value
Expected(raw, dflt) == IF raw = Null THEN dflt ELSE raw[1]

\* C24: in a pass that ran to its end, every evaluated station is checked
\* against the failure threshold and the gap threshold it has in the store,
\* or 3 and 6 hours where the column is absent or NULL, and raises no
\* threshold candidate where it has no rules: its ping candidate is there
\* iff the threshold is above 0 and reached, and its gap candidate names
\* that gap threshold.
C24_DefaultsElseConfigured ==
    (passDone /\ ~passError /\ "id" \in Columns("stations")) =>
       \A i \in Evaluated :
          LET s == stations[i]
              t == Expected(Stored(s, "alert_ping_failures"), DefaultPingFailures)
              g == Expected(Stored(s, "alert_gap_hours"), DefaultGapHours)
              c == ConsecutivePingFailures(ping_results, s.id, Max(MinSearchWindow, t))
          IN  /\ PingCandidate(s.id) <=> (t > 0 /\ c >= t)
              /\ \A gc \in GapCands(cands, s.id) : gc.key[4] = g
              /\ Stored(s, "alert_thresholds") = Null => CandCount("thresh", s.id) = 0

(* ========================= main: the startup =========================== *)

\* C25: when the database can be opened, so that the configuration can be
\* loaded, the process does not exit during startup with status 2: main
\* goes on to build the components and to register the jobs.
C25_ExitsOnlyWhenUnavailable ==
    boot.db_ok => (boot.exit_code # 2 /\ pc # "exited")

(* ======================= JobBuilder: properties ======================== *)

\* C26: a do(f) on a builder made by every(n) appends to the job list one
\* job of f, never run, with interval n when the unit is seconds and 60*n
\* when it is minutes, and leaves the jobs before it as they were; without
\* a unit it raises ValueError and the job list is unchanged.
C26_BuilderRegistersInSeconds ==
    [][probe'.last # probe.last =>
         LET call == probe'.last
         IN  /\ call.unit = "seconds" =>
                  /\ ~call.raised
                  /\ jobs' = Append(jobs, [interval |-> call.n, last_run |-> 0])
                  /\ probe'.funcs = Append(probe.funcs, call.func)
             /\ call.unit = "minutes" =>
                  /\ ~call.raised
                  /\ jobs' = Append(jobs, [interval |-> 60 * call.n, last_run |-> 0])
                  /\ probe'.funcs = Append(probe.funcs, call.func)
             /\ call.unit = "none" =>
                  /\ call.raised
                  /\ jobs' = jobs
                  /\ probe'.funcs = probe.funcs]_vars

\* f was registered by every(1).seconds.do(f), and after it g by
\* every(MaxInterval).minutes.do(g)
C26_Witness ==
    /\ Len(jobs) = 2
    /\ jobs[1].interval = 1
    /\ jobs[2].interval = 60 * MaxInterval
    /\ probe.funcs = <<"f", "g">>
    /\ probe.last.unit = "minutes"
    /\ probe.last.at = 1

(* ==================== alert engine: the key set ======================== *)

\* the keys of the _send_alert calls made by the latest pass
KeysSent == {sends[j].key : j \in 1..Len(sends)}

\* C30: _sent_keys never loses a key; a pass adds to it exactly the keys of
\* the _send_alert calls it made, also when an exception ended the pass
\* after some of them; so after every step _sent_keys is the set of the
\* keys dispatched so far, each dispatched once, and the number of
\* dispatches equals its size.
C30_SentKeysAreTheDispatchedKeys ==
    [][/\ sent_keys \subseteq sent_keys'
       /\ passDone' => sent_keys' \ sent_keys = {sends'[j].key : j \in 1..Len(sends')}
       /\ sent_keys' = DOMAIN dispatched'
       /\ \A k \in DOMAIN dispatched' : dispatched'[k] = 1]_vars

\* a pass dispatched the gap alert of station 1 and was then ended by the
\* exception raised for station 2: the key of station 1 is in the set
C30_Witness ==
    /\ passDone
    /\ passError
    /\ KeysSent = {GapKey(1, DefaultGapHours)}
    /\ GapKey(1, DefaultGapHours) \in sent_keys
    /\ Cardinality(sent_keys) = 1

(* ================ alert engine: the search window ====================== *)

\* the failure threshold a station is evaluated with
LimitInEffect(s) == OrDefault(s.alert_ping_failures, DefaultPingFailures)

\* the failure-streak keys of a station in _sent_keys
PingKeysOf(sid) == {k \in sent_keys : k[1] = "pingfail" /\ k[2] = sid}

\* C31: for a station evaluated with threshold t, a pass counts at most
\* max(20, t) failures however long the streak is, and raises the
\* failure-streak candidate whenever the streak is t or longer (t failures
\* exactly included, also when t is above 20); so the station's
\* failure-streak keys lie in t..max(20, t) and are at most
\* max(20, t) - t + 1.
C31_WindowCoversThresholdAndCapsCount ==
    \A i \in 1..Len(stations) :
       LET s == stations[i]
           t == LimitInEffect(s)
           w == Max(MinSearchWindow, t)
       IN  /\ passDone /\ ~passError =>
                /\ WholeStreak(s.id) >= t => PingCandidate(s.id)
                /\ \A j \in 1..Len(cands) :
                      (cands[j].kind = "pingfail" /\ cands[j].sid = s.id) =>
                         cands[j].key[4] = Min(WholeStreak(s.id), w)
           /\ \A k \in PingKeysOf(s.id) : k[4] >= t /\ k[4] <= w
           /\ Cardinality(PingKeysOf(s.id)) <= w - t + 1

\* station 1, with threshold 21, has exactly 21 failed pings behind it
\* and a pass has raised and sent its candidate with count 21
C31_Witness ==
    /\ passDone
    /\ LimitInEffect(stations[1]) = MinSearchWindow + 1
    /\ WholeStreak(1) = MinSearchWindow + 1
    /\ PingCandidate(1)
    /\ PingKeysOf(1) = {PingKey(1, MinSearchWindow + 1)}


(* -------------------- keys of stations and of kinds -------------------- *)

\* two failed pings of every station, one less than the default threshold
PingsOfAll ==
    [i \in 1..(2 * MaxStations) |-> [station_id |-> (i + 1) \div 2, success |-> 0]]

\* stations with the default settings and the Battery rule; every station
\* one failed ping short of its failure-streak alert; no readings, or a
\* Battery reading of 11.0 and a Signal reading per station, all with one
\* timestamp
KeysInit ==
    /\ SchedIdle
    /\ probe = NoProbe
    /\ stations = [i \in 1..MaxStations |-> StationRow(i, Null, Null)]
    /\ ping_results = PingsOfAll
    /\ readings \in BurstReadings
    /\ utcnow = AlertStart
    /\ sent_keys = {}
    /\ env = {}
    /\ startEnv = {}
    /\ down = {}
    /\ schema = FullSchema
    /\ NoPassYet

KeysSpec == KeysInit /\ [][AlertNext]_vars

\* the candidates of a kind and station among those of the latest pass
CandsOf(kind, sid) ==
    {cands[i] : i \in {j \in 1..Len(cands) : cands[j].kind = kind /\ cands[j].sid = sid}}

\* C34: the key texts of two candidates of different stations or different
\* kinds differ, and a candidate a pass raises and does not dispatch has
\* its key dispatched before by a candidate of its own kind and station.
C34_KeysApartByStationAndKind ==
    passDone =>
       /\ \A i, j \in 1..Len(cands) :
             (cands[i].kind # cands[j].kind \/ cands[i].sid # cands[j].sid)
                => KeyText(cands[i].key) # KeyText(cands[j].key)
       /\ \A i \in 1..Len(cands) :
             ~cands[i].sent =>
                \E k \in DOMAIN dispatched :
                   /\ KeyText(k) = KeyText(cands[i].key)
                   /\ k[1] = cands[i].kind
                   /\ k[2] = cands[i].sid

\* stations 1 and 2 both have a streak of 3, a gap over 6 h and a low
\* Battery reading of one timestamp; the pass dispatches the three alerts
\* of station 2 although those of station 1 with the same count,
\* threshold, parameter and timestamp were dispatched by an earlier pass
C34_Witness ==
    /\ passDone
    /\ \A kind \in {"pingfail", "gap", "thresh"} :
          \E c1 \in CandsOf(kind, 1), c2 \in CandsOf(kind, 2) :
             /\ c1.key[3] = c2.key[3]
             /\ c1.key[4] = c2.key[4]
             /\ ~c1.sent
    /\ \E c2 \in CandsOf("pingfail", 2) : c2.sent
    /\ \A k \in {KeyText(c.key) : c \in CandsOf("gap", 2) \cup CandsOf("thresh", 2)} :
          \E d \in DOMAIN dispatched : KeyText(d) = k /\ d[2] = 2

(* -------------------------- disabled stations -------------------------- *)

\* stations.enabled: NULL, 0, 1, or the texts '0' and '1'
EnabledValues == {Null, Some(0), Some(1), <<"0", "text">>, <<"1", "text">>}

\* for each station a Battery reading of 11.0 taken seven hours ago, the
\* timestamp text of station 1's with an offset or without; or no readings
EnabledReadings ==
    {<<>>} \cup
    {[i \in 1..MaxStations |->
        ReadingRow(i, "Battery", 110, (DefaultGapHours + 1) * SecondsPerHour,
                   i # 1 \/ aw)] :
       aw \in BOOLEAN}

\* station 1 with any enabled value and the others with NULL or 0, the
\* default settings and the Battery rule, each one failed ping short of
\* its failure-streak alert
EnabledInit ==
    /\ SchedIdle
    /\ probe = NoProbe
    /\ \E en \in [1..MaxStations -> EnabledValues] :
          /\ \A i \in 2..MaxStations : en[i] \in {Null, Some(0)}
          /\ stations = [i \in 1..MaxStations |-> StationRow(i, en[i], Null)]
    /\ ping_results = PingsOfAll
    /\ readings \in EnabledReadings
    /\ utcnow = AlertStart
    /\ sent_keys = {}
    /\ env = {}
    /\ startEnv = {}
    /\ down = {}
    /\ schema = FullSchema
    /\ NoPassYet

EnabledSpec == EnabledInit /\ [][AlertNext]_vars

\* the ids of the stations whose enabled field is 0 or '0'
Off ==
    {stations[i].id : i \in {j \in 1..Len(stations) :
         stations[j].enabled \in {Some(0), <<"0", "text">>}}}

\* C35: no candidate, no dispatch and no key in _sent_keys is of a station
\* whose enabled field is 0 or '0', and no pass has looked at its pings or
\* readings; a reading of such a station that would end the pass in an
\* exception does not; when all stations are such, the pass ends without
\* a candidate and without an exception.
C35_DisabledStationsSkipped ==
    /\ \A k \in sent_keys \cup DOMAIN dispatched : k[2] \notin Off
    /\ \A sid \in Off : lastStreak[sid] = -1 /\ lastGap[sid] = <<>>
    /\ passDone =>
          /\ \A i \in 1..Len(cands) : cands[i].sid \notin Off
          /\ \A j \in 1..Len(sends) : sends[j].key[2] \notin Off
          /\ passError =>
                \E r \in UNION {ReadingsOf(stations[i].id) : i \in 1..Len(stations)} :
                   r.station_id \notin Off /\ ~r.aware
          /\ Off = {stations[i].id : i \in 1..Len(stations)} =>
                cands = <<>> /\ ~passError

\* station 1 has enabled = '0', three failed pings and a reading whose
\* timestamp has no offset; the pass raises the three candidates of
\* station 2 and nothing else, and ends without an exception
C35_Witness ==
    /\ passDone
    /\ ~passError
    /\ stations[1].enabled = <<"0", "text">>
    /\ WholeStreak(1) >= DefaultPingFailures
    /\ \E r \in ReadingsOf(1) : ~r.aware
    /\ \A kind \in {"pingfail", "gap", "thresh"} : CandsOf(kind, 2) # {}
    /\ \A i \in 1..Len(cands) : cands[i].sid = 2

(* ---------------------------- the heartbeat ---------------------------- *)

\* C38: last_beat changes (a heartbeat is logged) only in the step from
\* the end of run_pending to the sleep, with no job running; the first
\* such step logs one; every later one is at least 5 seconds after the
\* one before; and when main goes to sleep, less than 5 seconds have
\* passed since the latest heartbeat.
C38_HeartbeatBetweenTicks ==
    /\ [][last_beat' # last_beat =>
             /\ pc = "beat" /\ pc' = "sleep"
             /\ running = {}
             /\ last_beat' = clock
             /\ last_beat # 0 => last_beat' - last_beat >= HEARTBEAT_SECS]_vars
    /\ [][(pc = "beat" /\ pc' = "sleep" /\ last_beat = 0) => last_beat' = clock]_vars
    /\ [](pc = "sleep" => (last_beat # 0 /\ clock - last_beat < HEARTBEAT_SECS))

\* a job is running 5 seconds after the latest heartbeat: the next one
\* waits for the tick to end
C38_Witness ==
    /\ pc = "job"
    /\ last_beat # 0
    /\ clock - last_beat >= HEARTBEAT_SECS

(* ------------------- the 7-day look-back of the pass ------------------- *)

\* how old the one stored reading is at the start: within the look-back
\* by an hour or a second, exactly 7 days, past it by a second (same
\* calendar day as the bound) or by a day
LookBackAges ==
    {LookBackSecs - SecondsPerHour, LookBackSecs - 1, LookBackSecs,
     LookBackSecs + 1, LookBackSecs + 24 * SecondsPerHour}

\* station 1, gap threshold 6 h (default) or 200 h (more than 7 days), rule
\* Battery [11.5, 14.5]; one Battery reading of 11.0, its timestamp text
\* with or without offset and with 'T' or a blank after the date
LookBackInit ==
    /\ SchedIdle
    /\ probe = NoProbe
    /\ \E gh \in {Null, Some(200)} :
          stations = <<[StationRow(1, Null, Null) EXCEPT !.alert_gap_hours = gh]>>
    /\ ping_results = <<>>
    /\ \E age \in LookBackAges, aware \in BOOLEAN, sep \in {"T", " "} :
          readings = <<[ReadingRow(1, "Battery", 110, age, aware) EXCEPT !.sep = sep]>>
    /\ utcnow = AlertStart
    /\ sent_keys = {}
    /\ env = {}
    /\ startEnv = {}
    /\ down = {}
    /\ schema = FullSchema
    /\ NoPassYet

LookBackNext ==
    \/ \E secs \in {1, SecondsPerHour} : Advance(secs)
    \/ AlertRun

LookBackSpec == LookBackInit /\ [][LookBackNext]_vars

\* the threshold candidates of a station among those of the latest pass
ThreshCandsOf(sid) ==
    {cands[i] : i \in {j \in 1..Len(cands) : cands[j].kind = "thresh" /\ cands[j].sid = sid}}

\* C32: a pass over a station all of whose readings are older than 7 days
\* ends without error, raises the gap candidate for it whatever its gap
\* threshold (also one longer than 7 days that the reading is still
\* within), and raises no threshold candidate for it though the reading
\* breaches a rule.
C32_OlderThanLookBackIsNoReading ==
    passDone =>
       \A i \in Evaluated :
          LET sid == stations[i].id
              own == ReadingsOf(sid)
          IN  (own # {} /\ \A r \in own : utcnow - r.ts > LookBackSecs)
                 => /\ ~passError
                    /\ GapCands(cands, sid) # {}
                    /\ ThreshCandsOf(sid) = {}

\* gap threshold 200 h, a Battery reading of 11.0 aged 7 days and one
\* second (168 h, within the threshold): the gap is raised, no breach
C32_Witness ==
    /\ passDone
    /\ stations[1].alert_gap_hours = Some(200)
    /\ \E r \in ReadingsOf(1) :
          /\ utcnow - r.ts = LookBackSecs + 1
          /\ r.value < 115
          /\ r.aware
    /\ GapCands(cands, 1) # {}
    /\ ThreshCandsOf(1) = {}


(* ------------------ dispatch with no sink configured ------------------- *)

\* C33: a key whose _send_alert call found no sink configured is in
\* _sent_keys and is dispatched that one time only: a later pass that
\* raises the same key with a sink configured sends nothing for it.
C33_SilentDispatchStillRecorded ==
    /\ \A k \in silentKeys : k \in sent_keys /\ dispatched[k] = 1
    /\ passDone =>
          \A i \in 1..Len(cands) :
             cands[i].key \in silentKeys =>
                \/ ~cands[i].sent
                \/ \E j \in 1..Len(sends) :
                      sends[j].key = cands[i].key /\ sends[j].tried = {}

\* a pass with the Teams webhook set raises, and sends nothing for, the gap
\* keys of both stations, dispatched to no sink by an earlier pass
C33_Witness ==
    /\ passDone
    /\ Sinks(env) = {"teams"}
    /\ down = {}
    /\ sends = <<>>
    /\ Len(cands) >= 2
    /\ \A i \in 1..Len(cands) : cands[i].key \in silentKeys /\ ~cands[i].sent


(* ============ main: the startup kick-off and the first ticks =========== *)

\* __main__.py:137-140  the jobs in registration order
MainJobs == <<"pinger", "filestore_ingest", "logger_poll", "alerts">>

\* __main__.py:103-108  the intervals in minutes: load_config returns no
\* "intervals" key (config_loader.py:243-246), so these are the defaults
MainIntervals == <<5, 15, 10, 5>>

\* time.time() when main reaches the kick-off: above every interval, as
\* the real clock is
MainStart == StartTime + IntervalSeconds(15, "minutes")

MainEnd == MainStart + Horizon

\* (mutant) the kick-off stamps the jobs as run_pending does
AfterKickOff_Stamped(js, t) == [k \in DOMAIN js |-> [js[k] EXCEPT !.last_run = t]]

\* __main__.py:143-145  _job(...)() calls the wrapped function directly:
\* the scheduler's job list is not touched
AfterKickOff(js, t) == js

\* main at line 142: the configuration loaded, the components built, the
\* four jobs registered through every(n).minutes.do(...); one station
\* with the default settings and the Battery rule, two failed pings
\* behind it, without readings or with a Battery reading of 11.0
KickInit ==
    /\ boot = Booted
    /\ jobs = [j \in DOMAIN MainJobs |->
                 NewJob(IntervalSeconds(MainIntervals[j], "minutes"))]
    /\ clock = MainStart
    /\ pc = "kick_pinger"
    /\ now = 0
    /\ idx = 0
    /\ running = {}
    /\ shutdown = FALSE
    /\ last_beat = 0
    /\ started = [j \in DOMAIN MainJobs |-> -1]
    /\ firedAt = [j \in DOMAIN MainJobs |-> -1]
    /\ raised = {}
    /\ dueAtTick = {}
    /\ firedInTick = <<>>
    /\ sigAtJob = 0
    /\ probe = [kick |-> <<>>]
    /\ stations = <<StationRow(1, Null, Null)>>
    /\ ping_results = InitialPings
    /\ readings \in {<<>>, <<ReadingRow(1, "Battery", 110, 1, TRUE)>>}
    /\ utcnow = AlertStart
    /\ sent_keys = {}
    /\ env = {}
    /\ startEnv = {}
    /\ down = {}
    /\ schema = FullSchema
    /\ NoPassYet

\* pinger.py:159-193  Pinger._run_once: the station is pinged and the
\* result saved (res 1 or 0), or it is not pinged or the insert fails
\* (res -1)
PingerEffect(res) ==
    /\ ping_results' = IF res = -1 THEN ping_results
                       ELSE Append(ping_results, [station_id |-> 1, success |-> res])
    /\ Changed
    /\ UNCHANGED <<schema, stations, readings, utcnow, env, down>>

\* filestore_ingest.py:94-99, logger_poll.py:101-105  a run stores a new
\* Battery reading of station 1, its timestamp text with or without an
\* offset, or stores nothing
ReadingsEffect(add, aware) ==
    /\ readings' = IF add
                   THEN Append(readings, [ReadingRow(1, "Battery", 110, 0, aware)
                                            EXCEPT !.sep = " "])
                   ELSE readings
    /\ Changed
    /\ UNCHANGED <<schema, stations, ping_results, utcnow, env, down>>

\* __main__.py:144  _job("pinger@startup", pinger.run)()
KickOffPinger(d) ==
    /\ pc = "kick_pinger"
    /\ \E res \in {-1, 0, 1} : PingerEffect(res)
    /\ clock' = clock + d
    /\ jobs' = AfterKickOff(jobs, clock)
    /\ pc' = "kick_alerts"
    /\ UNCHANGED <<now, idx, running, shutdown, last_beat, histVars, probe, boot>>

\* __main__.py:145  _job("alerts@startup", alert_manager.run)(); then main
\* goes on to the loop
KickOffAlerts(d) ==
    /\ pc = "kick_alerts"
    /\ PassEffect
    /\ probe' = [kick |-> cands']
    /\ clock' = clock + d
    /\ jobs' = AfterKickOff(jobs, clock)
    /\ pc' = "check"
    /\ UNCHANGED <<now, idx, running, shutdown, last_beat, histVars, boot>>

\* __main__.py:124-134, scheduler.py:50-54  the wrapped action of job j
\* runs for d seconds and returns (_wrapped catches what the component
\* raises); `finally` sets last_run and the for loop goes on
MainJobRuns(j, d) ==
    /\ pc = "job"
    /\ idx = j
    /\ j \in running
    /\ clock + d <= MainEnd
    /\ clock' = clock + d
    /\ running' = running \ {j}
    /\ jobs' = SetLastRun(jobs, j, now, FALSE)
    /\ raised' = raised \ {j}
    /\ pc' = "tick"
    /\ idx' = j + 1
    /\ CASE MainJobs[j] = "pinger" -> \E res \in {-1, 0, 1} : PingerEffect(res)
         [] MainJobs[j] = "alerts" -> PassEffect
         [] OTHER -> \E add \in BOOLEAN, aware \in BOOLEAN : ReadingsEffect(add, aware)
    /\ UNCHANGED <<now, shutdown, last_beat, started, firedAt,
                   dueAtTick, firedInTick, sigAtJob, probe, boot>>

\* __main__.py:160  time.sleep(1)
MainSleep ==
    /\ pc = "sleep"
    /\ clock + SleepSecs <= MainEnd
    /\ clock' = clock + SleepSecs
    /\ pc' = "check"
    /\ UNCHANGED <<jobs, now, idx, running, shutdown, last_beat, histVars>>
    /\ UNCHANGED <<alertVars, probe, boot>>

KickNext ==
    \/ \E d \in Durations : KickOffPinger(d)
    \/ \E d \in Durations : KickOffAlerts(d)
    \/ LoopEnter
    \/ LoopExit
    \/ SkipJob
    \/ InvokeJob
    \/ \E j \in DOMAIN MainJobs, d \in Durations : MainJobRuns(j, d)
    \/ TickDone
    \/ Heartbeat
    \/ MainSleep
    \/ SignalHandler

KickSpec == KickInit /\ [][KickNext]_vars

\* the keys of the candidates in cs
KeysOf(cs) == {cs[i].key : i \in 1..Len(cs)}

\* C36: the kick-off runs leave every job's last_run as registration set
\* it; every tick that ends has invoked the four jobs in registration
\* order (ping first, alert-evaluate last), or none after a tick that
\* did, so the first does; and of the keys the kick-off pass raised, the
\* pass of that tick dispatches none: every key has one dispatch.
C36_KickOffThenAllFourOnce ==
    /\ pc \in {"kick_pinger", "kick_alerts"} \/ (pc = "check" /\ firedAt[1] = -1)
          => \A j \in DOMAIN jobs : jobs[j].last_run = 0
    /\ pc = "beat" =>
          \/ firedInTick = <<1, 2, 3, 4>>
          \/ firedInTick = <<>> /\ \A j \in DOMAIN jobs : firedAt[j] = firedAt[1] /\ firedAt[j] # -1
    /\ \A k \in DOMAIN dispatched : dispatched[k] = 1
    /\ (passDone /\ firedAt[4] # -1) =>
          \A i \in 1..Len(cands) : cands[i].key \in KeysOf(probe.kick) => ~cands[i].sent

\* the first tick has ended: ping, ingest, poll and alert-evaluate were
\* invoked in it, in this order; its pass raised the gap the kick-off
\* pass had raised and dispatched, and did not dispatch it again
C36_Witness ==
    /\ pc = "beat"
    /\ firedInTick = <<1, 2, 3, 4>>
    /\ passDone
    /\ GapKey(1, DefaultGapHours) \in KeysOf(probe.kick)
    /\ dispatched[GapKey(1, DefaultGapHours)] = 1
    /\ \E i \in 1..Len(cands) : cands[i].key = GapKey(1, DefaultGapHours) /\ ~cands[i].sent


(* -------------------- malformed threshold settings --------------------- *)

\* one entry of the JSON object in alert_thresholds
Entry(pname, shape, vmin, vmax) ==
    [pname |-> pname, shape |-> shape, vmin |-> vmin, vmax |-> vmax]

\* the alert_thresholds texts of station 1: NULL; the well-formed
\* {"Battery": [11.5, 14.5], "Signal": [0, null]}; the same with the text
\* broken off in the Signal entry; with Battery a 1-element list, a
\* 3-element list or a number; and with the Battery minimum "abc"
ThresholdTexts ==
    LET Signal == Entry("Signal", "pair", Some(0), Null)
    IN  {Null,
         <<Entry("Battery", "pair", Some(115), Some(145)), Signal>>,
         <<Entry("Battery", "pair", Some(115), Some(145)),
           Entry("Signal", "broken", Some(0), Null)>>,
         <<Entry("Battery", "short", Some(115), Null), Signal>>,
         <<Entry("Battery", "long", Some(115), Some(145)), Signal>>,
         <<Entry("Battery", "scalar", Some(115), Null), Signal>>,
         <<Entry("Battery", "pair", Text, Some(145)), Signal>>}

\* station 1 with one of the texts, the other stations with the Battery
\* rule; every station one failed ping short of its failure-streak alert;
\* no readings, or per station a Battery reading of 11.0 and a Signal
\* reading of -1, taken now or seven hours ago
ParseInit ==
    /\ SchedIdle
    /\ probe = NoProbe
    /\ \E text \in ThresholdTexts :
          stations = [i \in 1..MaxStations |->
                        [StationRow(i, Null, Null) EXCEPT
                           !.alert_thresholds = IF i = 1 THEN text ELSE @]]
    /\ ping_results = PingsOfAll
    /\ readings \in BurstReadings
    /\ utcnow = AlertStart
    /\ sent_keys = {}
    /\ env = {}
    /\ startEnv = {}
    /\ down = {}
    /\ schema = FullSchema
    /\ NoPassYet

ParseSpec == ParseInit /\ [][AlertNext]_vars

\* a bound that is set to a number
IsNumber(b) == b # Null /\ ~IsText(b)

\* C37: whatever the alert_thresholds text of a station, a pass ends
\* without an exception and performs the station's failure-streak and gap
\* checks; a text that is not JSON gives no threshold candidate at all;
\* otherwise an entry that is not a 2-element list gives none while the
\* other entries are evaluated, and a bound that is no number counts as
\* unset.
C37_BadThresholdsAreSkipped ==
    passDone =>
       /\ ~passError
       /\ \A i \in 1..Len(stations) :
             LET s == stations[i]
                 text == s.alert_thresholds
                 own == ReadingsOf(s.id)
             IN  /\ PingCandidate(s.id) <=> WholeStreak(s.id) >= DefaultPingFailures
                 /\ (GapCands(cands, s.id) # {})
                       <=> \A r \in own : utcnow - r.ts > DefaultGapHours * SecondsPerHour
                 /\ (\E k \in DOMAIN text : text[k].shape = "broken")
                       => ThreshCandsOf(s.id) = {}
                 /\ (\A k \in DOMAIN text : text[k].shape # "broken") =>
                       \A k \in DOMAIN text :
                          (ThreshCands(s.id, text[k].pname) # {})
                             <=> /\ text[k].shape = "pair"
                                 /\ \E r \in own :
                                       /\ r.name = text[k].pname
                                       /\ \/ IsNumber(text[k].vmin) /\ r.value < text[k].vmin[1]
                                          \/ IsNumber(text[k].vmax) /\ r.value > text[k].vmax[1]

\* {"Battery": [11.5], "Signal": [0, null]} with readings Battery 11.0 and
\* Signal -1, seven hours old, and three failed pings: the pass raises the
\* failure streak, the gap and the Signal breach, and nothing for Battery
C37_Witness ==
    /\ passDone
    /\ Len(stations[1].alert_thresholds) = 2
    /\ stations[1].alert_thresholds[1] = Entry("Battery", "short", Some(115), Null)
    /\ \E r \in ReadingsOf(1) : r.name = "Battery" /\ r.value = 110
    /\ PingCandidate(1)
    /\ GapCands(cands, 1) # {}
    /\ ThreshCands(1, "Signal") # {}
    /\ ThreshCands(1, "Battery") = {}

====
